---- MODULE Spec2Model ----
(***************************************************************************)
(* A model of the bounding-box pipeline of facebook-scraper:               *)
(*   boundboxes.py        Boundbox / Boundboxes and their operations       *)
(*   image_alignment.py   text-overlap alignment of consecutive images     *)
(*   content_parser.py    parse_post / parse_comment                       *)
(*   ocr.py               shade_comment_regions (comment-region discovery) *)
(*   easy_ocr.py          construction of boxes from OCR quadrilaterals    *)
(*                                                                         *)
(* Conventions.                                                            *)
(*  - Coordinates are whole pixels (the OCR wrappers convert integer pixel *)
(*    positions with float()); on such values every comparison the code    *)
(*    makes in floating point agrees with exact arithmetic.                *)
(*  - A text is a sequence of one-character strings, so that lower(),      *)
(*    strip(), replace(), substring tests and SequenceMatcher are computed *)
(*    character by character as Python computes them.                      *)
(*  - A ratio is kept as numerator and denominator:  a/b > n/d  is         *)
(*    a*d > n*b  for b, d > 0.                                             *)
(*  - A vertical offset is a multiple of half a pixel (a difference of     *)
(*    midpoints); the model carries twice its value.                       *)
(*  - apply_offset adds floats; its sums are rounded as FloatAdd rounds    *)
(*    them, which leaves the values of the pipeline exact.                 *)
(*  - Where aliasing matters, boxes and lists are objects of a heap.       *)
(***************************************************************************)
EXTENDS Integers, Sequences, FiniteSets, TLC

VARIABLES
  boxes,    \* the Boundboxes.boxes list an operation is called on
  images,   \* boundboxes_list: one box list per screenshot
  given,    \* how the input was manufactured, where a property refers to it
  pc,       \* which call has returned
  res       \* what the call returned

vars == <<boxes, images, given, pc, res>>

(***************************************************************************)
(* Generic helpers                                                         *)
(***************************************************************************)
Max2(a, b) == IF a >= b THEN a ELSE b

Min2(a, b) == IF a <= b THEN a ELSE b

Abs(a) == IF a >= 0 THEN a ELSE 0 - a

Range(s) == {s[i] : i \in 1..Len(s)}

\* All sequences over S of length 0..n.
SeqsUpTo(S, n) == UNION {[1..k -> S] : k \in 0..n}

\* min(...) / max(...) of a non-empty set of numbers.
SetMin(S) == CHOOSE m \in S : \A v \in S : m <= v

SetMax(S) == CHOOSE m \in S : \A v \in S : m >= v

\* Insert e into the sequence s, sorted on field f, after every element whose
\* f is not greater: the step of a stable sort.
RECURSIVE InsertByKey(_, _, _)
InsertByKey(s, e, f) ==
  IF s = <<>> THEN <<e>>
  ELSE IF Head(s)[f] <= e[f]
       THEN <<Head(s)>> \o InsertByKey(Tail(s), e, f)
       ELSE <<e>> \o s

\* sorted(s, key=lambda box: box.f): ascending and stable, as Python's
\* sorted and list.sort.
RECURSIVE SortedBy(_, _)
SortedBy(s, f) ==
  IF s = <<>> THEN <<>>
  ELSE InsertByKey(SortedBy(SubSeq(s, 1, Len(s) - 1), f), s[Len(s)], f)

(***************************************************************************)
(* Boundbox  (boundboxes.py 8-26)                                          *)
(***************************************************************************)
Boundbox(x1, x2, y1, y2, text, confidence) ==
  [x1 |-> x1, x2 |-> x2, y1 |-> y1, y2 |-> y2,
   text |-> text, confidence |-> confidence]

width(box) == box.x2 - box.x1

height(box) == box.y2 - box.y1

area(box) == width(box) * height(box)

WellFormed(box) == box.x1 <= box.x2 /\ box.y1 <= box.y2

(***************************************************************************)
(* Boundboxes.remove_duplicates  (boundboxes.py 53-100)                    *)
(***************************************************************************)
\* min_ratio = 0.5, the default of remove_duplicates, as MinRatioNum/MinRatioDen
MinRatioNum == 1

MinRatioDen == 2

\* sorted(self.boxes, key=lambda x: x.y1)
SortByY1(bs) == SortedBy(bs, "y1")

\* line 75: if box2.y1 >= box1.y2: break
EarlyExitAlways(box1, box2) == box2.y1 >= box1.y1

EarlyExitMut(box1, box2) == box2.y1 >= box1.y1 + 1

EarlyExit(box1, box2) == box2.y1 >= box1.y2

\* line 79: if box2.y2 <= box1.y1: continue
NoYOverlap(box1, box2) == box2.y2 <= box1.y1

\* lines 83-85
Intersection(box1, box2) ==
  LET x_overlap == Max2(0, Min2(box1.x2, box2.x2) - Max2(box1.x1, box2.x1))
      y_overlap == Max2(0, Min2(box1.y2, box2.y2) - Max2(box1.y1, box2.y1))
  IN  x_overlap * y_overlap

\* lines 89-90 and 94-95:
\*   coverage = intersection / a if a > 0 else 0;  coverage > min_ratio
CoveredMut(intersection, a) ==
  a > 0 /\ intersection * MinRatioDen >= MinRatioNum * a

CoveredNoGuard(intersection, a) ==
  intersection * MinRatioDen > MinRatioNum * a \/ a = 0

Covered(intersection, a) ==
  IF a > 0 THEN intersection * MinRatioDen > MinRatioNum * a ELSE FALSE

\* line 88: if box1.area < box2.area  (box1 is the one to drop)
FirstIsSmallerMut(box1, box2) == area(box1) > area(box2)

FirstIsSmallerTie(box1, box2) == area(box1) <= area(box2)

FirstIsSmaller(box1, box2) == area(box1) < area(box2)

\* lines 68-96: the scan of the boxes j after box i; returns keep_indices
RECURSIVE InnerScan(_, _, _, _)
InnerScan(sb, i, j, keep) ==
  IF j > Len(sb) THEN keep
  ELSE IF j \notin keep THEN InnerScan(sb, i, j + 1, keep)
  ELSE LET box1 == sb[i]
           box2 == sb[j]
           intersection == Intersection(box1, box2)
       IN  IF EarlyExit(box1, box2) THEN keep
           ELSE IF NoYOverlap(box1, box2) THEN InnerScan(sb, i, j + 1, keep)
           ELSE IF FirstIsSmaller(box1, box2)
                THEN IF Covered(intersection, area(box1))
                     THEN keep \ {i}
                     ELSE InnerScan(sb, i, j + 1, keep)
                ELSE IF Covered(intersection, area(box2))
                     THEN InnerScan(sb, i, j + 1, keep \ {j})
                     ELSE InnerScan(sb, i, j + 1, keep)

\* lines 62-96: the loop over i
RECURSIVE OuterScan(_, _, _)
OuterScan(sb, i, keep) ==
  IF i > Len(sb) THEN keep
  ELSE IF i \notin keep THEN OuterScan(sb, i + 1, keep)
  ELSE OuterScan(sb, i + 1, InnerScan(sb, i, i + 1, keep))

\* keep_indices after the scan of the y1-sorted list
KeepIndices(bs) ==
  LET sorted_boxes == SortByY1(bs)
  IN  OuterScan(sorted_boxes, 1, 1..Len(sorted_boxes))

\* [s[i] for i in keep]: a set of small ints iterates in ascending order
RECURSIVE PickKept(_, _, _)
PickKept(s, keep, i) ==
  IF i > Len(s) THEN <<>>
  ELSE IF i \in keep THEN <<s[i]>> \o PickKept(s, keep, i + 1)
       ELSE PickKept(s, keep, i + 1)

remove_duplicates(bs) ==
  IF bs = <<>> THEN <<>>
  ELSE PickKept(SortByY1(bs), KeepIndices(bs), 1)

(***************************************************************************)
(* Deduplication: inputs and calls                                         *)
(***************************************************************************)
\* Largest collection handed to remove_duplicates.
MaxBoxes == 3

\* Horizontal and vertical extents <<lo, hi>> of the boxes tried; they
\* include nested, half-covering, more-than-half-covering, touching and
\* zero-width / zero-height cases.
XSpans == {<<0, 4>>, <<0, 2>>, <<1, 4>>, <<2, 6>>, <<2, 2>>}

YSpans == {<<0, 3>>, <<0, 1>>, <<1, 3>>, <<2, 4>>, <<1, 1>>}

DedupBoxes ==
  {Boundbox(xs[1], xs[2], ys[1], ys[2], <<"a">>, 1) : xs \in XSpans, ys \in YSpans}

\* The pair of the deduplication example: A = (0,0,100,20), B = (0,0,50,20).
ExampleA == Boundbox(0, 100, 0, 20, <<"a">>, 1)

ExampleB == Boundbox(0, 50, 0, 20, <<"a">>, 1)

\* Two boxes of area 12 side by side, and one of the same area lower down;
\* each covers 9 or 8 of TieFirst.
TieFirst == Boundbox(0, 4, 0, 3, <<"f">>, 1)

TieSecond == Boundbox(1, 5, 0, 3, <<"s">>, 1)

TieLower == Boundbox(0, 4, 1, 4, <<"l">>, 1)

\* Three boxes on one line, each covering more than half of the one before.
ChainA == Boundbox(0, 3, 0, 2, <<"a">>, 1)

ChainB == Boundbox(1, 6, 0, 2, <<"b">>, 1)

ChainC == Boundbox(3, 12, 0, 2, <<"c">>, 1)

ChainOrders ==
  { <<ChainA, ChainB, ChainC>>, <<ChainA, ChainC, ChainB>>,
    <<ChainB, ChainA, ChainC>>, <<ChainB, ChainC, ChainA>>,
    <<ChainC, ChainA, ChainB>>, <<ChainC, ChainB, ChainA>> }

DedupExamples ==
  { <<ExampleA, ExampleB>>, <<ExampleB, ExampleA>>,
    <<TieFirst, TieSecond>>, <<TieSecond, TieFirst>>,
    <<TieFirst, TieLower>>, <<TieLower, TieFirst>> } \cup ChainOrders

NoRes == [kept |-> <<>>]

InitDedup ==
  /\ boxes \in SeqsUpTo(DedupBoxes, MaxBoxes) \cup DedupExamples
  /\ images = <<>>
  /\ given = "boxes"
  /\ pc = "input"
  /\ res = NoRes

\* deduplicated = boxes.remove_duplicates()
CallRemoveDuplicates ==
  /\ pc = "input"
  /\ pc' = "dedup"
  /\ res' = [kept |-> remove_duplicates(boxes)]
  /\ UNCHANGED <<boxes, images, given>>

\* deduplicated.remove_duplicates()
CallRemoveDuplicatesAgain ==
  /\ pc = "dedup"
  /\ pc' = "dedup2"
  /\ res' = [kept |-> res.kept, again |-> remove_duplicates(res.kept)]
  /\ UNCHANGED <<boxes, images, given>>

NextDedup == CallRemoveDuplicates \/ CallRemoveDuplicatesAgain

SpecDedup == InitDedup /\ [][NextDedup]_vars

\* The duplicate criterion between two boxes: the intersection is more than
\* min_ratio of the area of the smaller one.
SmallerArea(b1, b2) == Min2(area(b1), area(b2))

Duplicates(b1, b2) ==
  Intersection(b1, b2) * MinRatioDen > MinRatioNum * SmallerArea(b1, b2)

\* C1: remove_duplicates is idempotent: a second pass over its output keeps
\* the same set of boxes, and no two boxes at different positions of the
\* output meet the duplicate criterion.
C1_Idempotent ==
  /\ pc = "dedup2" => Range(res.again) = Range(res.kept)
  /\ pc = "dedup" =>
       \A i, j \in 1..Len(res.kept) :
         i # j => ~Duplicates(res.kept[i], res.kept[j])

\* C1 witness: a pass that removed a box, followed by a second pass.
C1_Witness ==
  /\ pc = "dedup2"
  /\ Len(boxes) = 3
  /\ Len(res.kept) = 2
  /\ \E i, j \in 1..3 : i # j /\ Duplicates(boxes[i], boxes[j])

\* b lies fully inside a.
Inside(b, a) == a.x1 <= b.x1 /\ b.x2 <= a.x2 /\ a.y1 <= b.y1 /\ b.y2 <= a.y2

\* C6 as stated: of two boxes, one inside the other and of strictly smaller
\* area, exactly the larger is returned.
C6_NestedSmallerRemoved ==
  (pc = "dedup" /\ Len(boxes) = 2) =>
    \A i, j \in 1..2 :
      (i # j /\ Inside(boxes[j], boxes[i]) /\ area(boxes[j]) < area(boxes[i]))
        => Range(res.kept) = {boxes[i]}

\* C6 amended: of two boxes, one inside the other and of strictly smaller but
\* positive area, exactly the larger is returned; and for any two boxes, if
\* the intersection is more than min_ratio of the smaller area then exactly
\* one box is returned and it is not the smaller one, else both are returned.
C6_PairRule ==
  (pc = "dedup" /\ Len(boxes) = 2) =>
    /\ \A i, j \in 1..2 :
         (/\ i # j
          /\ Inside(boxes[j], boxes[i])
          /\ area(boxes[j]) < area(boxes[i])
          /\ area(boxes[j]) > 0)
           => Range(res.kept) = {boxes[i]}
    /\ IF Duplicates(boxes[1], boxes[2])
       THEN /\ Len(res.kept) = 1
            /\ res.kept[1] \in Range(boxes)
            /\ area(res.kept[1]) >= Max2(area(boxes[1]), area(boxes[2]))
       ELSE /\ Len(res.kept) = 2
            /\ Range(res.kept) = Range(boxes)

\* C6 witness: the example pair, given smaller box first, reduced to A.
C6_Witness ==
  /\ pc = "dedup"
  /\ boxes = <<ExampleB, ExampleA>>
  /\ res.kept = <<ExampleA>>

(***************************************************************************)
(* text_similarity  (image_alignment.py 12-18)                             *)
(* difflib.SequenceMatcher(None, a, b).ratio() without junk: the longest   *)
(* matching block (earliest in a, then earliest in b), then the same to    *)
(* its left and to its right; ratio = 2 * matched / (len(a) + len(b)).     *)
(* (difflib's automatic junk heuristic needs len(b) >= 200.)               *)
(***************************************************************************)
\* Length of the common run of a[i..ahi] and b[j..bhi].
RECURSIVE RunLen(_, _, _, _, _, _)
RunLen(a, i, ahi, b, j, bhi) ==
  IF i > ahi \/ j > bhi THEN 0
  ELSE IF a[i] # b[j] THEN 0
  ELSE 1 + RunLen(a, i + 1, ahi, b, j + 1, bhi)

\* SequenceMatcher.find_longest_match on a[alo..ahi], b[blo..bhi]
find_longest_match(a, alo, ahi, b, blo, bhi) ==
  LET starts == (alo..ahi) \X (blo..bhi)
      len(p) == RunLen(a, p[1], ahi, b, p[2], bhi)
      best == SetMax({len(p) : p \in starts})
      firstI == SetMin({p[1] : p \in {q \in starts : len(q) = best}})
      firstJ == SetMin({p[2] : p \in {q \in starts : len(q) = best /\ q[1] = firstI}})
  IN  IF best = 0 THEN [i |-> alo, j |-> blo, size |-> 0]
      ELSE [i |-> firstI, j |-> firstJ, size |-> best]

\* Sum of the sizes of SequenceMatcher.get_matching_blocks
RECURSIVE MatchedChars(_, _, _, _, _, _)
MatchedChars(a, alo, ahi, b, blo, bhi) ==
  IF alo > ahi \/ blo > bhi THEN 0
  ELSE LET m == find_longest_match(a, alo, ahi, b, blo, bhi)
       IN  IF m.size = 0 THEN 0
           ELSE m.size
                + MatchedChars(a, alo, m.i - 1, b, blo, m.j - 1)
                + MatchedChars(a, m.i + m.size, ahi, b, m.j + m.size, bhi)

\* SequenceMatcher.ratio() as <<numerator, denominator>>; 1.0 for two empty texts
Ratio(text1, text2) ==
  LET total == Len(text1) + Len(text2)
  IN  IF total = 0 THEN <<1, 1>>
      ELSE <<2 * MatchedChars(text1, 1, Len(text1), text2, 1, Len(text2)), total>>

\* The texts screenshots are made of in the alignment runs: identical,
\* nearly identical (ratio 10/11) and unrelated ones.
TextA == <<"a", "b", "c", "d", "e">>

TextA2 == <<"a", "b", "c", "d", "e", "f">>

TextA3 == <<"a", "b", "c", "d", "e", "g">>

TextB == <<"x", "y">>

AlignTexts == {TextA, TextA2, TextA3, TextB}

\* The ratios of the texts above, computed once.
RatioTable == [p \in AlignTexts \X AlignTexts |-> Ratio(p[1], p[2])]

text_similarity(text1, text2) ==
  IF <<text1, text2>> \in DOMAIN RatioTable
  THEN RatioTable[<<text1, text2>>]
  ELSE Ratio(text1, text2)

\* r < q, r > q for ratios with positive denominators
RatioLess(r, q) == r[1] * q[2] < q[1] * r[2]

(***************************************************************************)
(* find_y_offset_boundboxes  (image_alignment.py 48-115)                   *)
(***************************************************************************)
\* line 90: score < 0.9
MinSimilarityNum == 9

MinSimilarityDen == 10

\* line 95: x1_diff > 10
MaxX1Diff == 10

\* lines 57-76: the dict of an image, as its entries in insertion order; an
\* entry holds the first box of its text, or None once the text came again
MarkDuplicateMut(entry, box) == [entry EXCEPT !.none = ~@, !.box = box]

MarkDuplicate(entry, box) == [entry EXCEPT !.none = TRUE]

RECURSIVE UniqueLoop(_, _, _)
UniqueLoop(bs, k, unique) ==
  IF k > Len(bs) THEN unique
  ELSE LET text == bs[k].text
           at == {e \in 1..Len(unique) : unique[e].text = text}
       IN  IF at = {}
           THEN UniqueLoop(bs, k + 1,
                  Append(unique, [text |-> text, box |-> bs[k], none |-> FALSE]))
           ELSE LET e == CHOOSE e \in at : TRUE
                IN  UniqueLoop(bs, k + 1,
                      [unique EXCEPT ![e] = MarkDuplicate(unique[e], bs[k])])

\* lines 74-76: the entries that are not None, as their boxes
UniqueBoxesMut(bs) == bs

UniqueBoxes(bs) ==
  LET unique == UniqueLoop(bs, 1, <<>>)
      kept(entry) == ~entry.none
      kept_entries == SelectSeq(unique, kept)
  IN  [e \in 1..Len(kept_entries) |-> kept_entries[e].box]

\* lines 88-96: prev_box can serve as a match of curr_box
QualifiesMut(curr_box, prev_box) ==
  ~RatioLess(text_similarity(curr_box.text, prev_box.text),
             <<MinSimilarityNum, MinSimilarityDen>>)

Qualifies(curr_box, prev_box) ==
  /\ ~RatioLess(text_similarity(curr_box.text, prev_box.text),
                <<MinSimilarityNum, MinSimilarityDen>>)
  /\ ~(Abs(curr_box.x1 - prev_box.x1) > MaxX1Diff)

\* lines 81-100: the scan of prev_unique for one curr_box; best is the index
\* of best_match (0 for None), best_score starts at 0
RECURSIVE BestMatchMut(_, _, _, _, _)
BestMatchMut(curr_box, prev_unique, k, best, best_score) ==
  IF k > Len(prev_unique) THEN best
  ELSE LET score == text_similarity(curr_box.text, prev_unique[k].text)
       IN  IF Qualifies(curr_box, prev_unique[k]) /\ ~RatioLess(score, best_score)
           THEN BestMatchMut(curr_box, prev_unique, k + 1, k, score)
           ELSE BestMatchMut(curr_box, prev_unique, k + 1, best, best_score)

RECURSIVE BestMatch(_, _, _, _, _)
BestMatch(curr_box, prev_unique, k, best, best_score) ==
  IF k > Len(prev_unique) THEN best
  ELSE LET score == text_similarity(curr_box.text, prev_unique[k].text)
       IN  IF Qualifies(curr_box, prev_unique[k]) /\ RatioLess(best_score, score)
           THEN BestMatch(curr_box, prev_unique, k + 1, k, score)
           ELSE BestMatch(curr_box, prev_unique, k + 1, best, best_score)

\* lines 106-111, twice the value: prev_y_mid - curr_y_mid
MidOffset2Mut(prev_box, curr_box) ==
  (curr_box.y1 + curr_box.y2) - (prev_box.y1 + prev_box.y2)

MidOffset2(prev_box, curr_box) ==
  (prev_box.y1 + prev_box.y2) - (curr_box.y1 + curr_box.y2)

\* The value None, and an offset (kept as twice its value)
None == [none |-> TRUE, offset2 |-> 0]

Some(offset2) == [none |-> FALSE, offset2 |-> offset2]

\* lines 80-104: the loop over curr_unique, stopping at the first curr_box
\* that has a best_match; the positions <<best_match, curr_box>> in the two
\* lists, <<0, 0>> when the loop ends without a match
RECURSIVE MatchScan(_, _, _)
MatchScan(prev_unique, curr_unique, c) ==
  IF c > Len(curr_unique) THEN <<0, 0>>
  ELSE LET best == BestMatch(curr_unique[c], prev_unique, 1, 0, <<0, 1>>)
       IN  IF best # 0 THEN <<best, c>>
           ELSE MatchScan(prev_unique, curr_unique, c + 1)

\* lines 104-115: the offset of the match, or None
ScanCurr(prev_unique, curr_unique, c) ==
  LET match == MatchScan(prev_unique, curr_unique, c)
  IN  IF match = <<0, 0>> THEN None
      ELSE Some(MidOffset2(prev_unique[match[1]], curr_unique[match[2]]))

find_y_offset_boundboxes(prev_boxes, curr_boxes) ==
  IF prev_boxes = <<>> \/ curr_boxes = <<>> THEN None
  ELSE ScanCurr(UniqueBoxes(prev_boxes), UniqueBoxes(curr_boxes), 1)

(***************************************************************************)
(* find_alignment_offsets_boundboxes  (image_alignment.py 21-45)           *)
(* Returns the cumulative offsets, each as twice its value.                *)
(***************************************************************************)
\* lines 36-43: the offset appended for image i (1-based: images[i] is the
\* code's boundboxes_list[i-1])
NextOffsetMut(boundboxes_list, cumulative_offsets, i) ==
  LET offset == find_y_offset_boundboxes(boundboxes_list[i - 1], boundboxes_list[i])
  IN  IF ~offset.none
      THEN cumulative_offsets[1] + offset.offset2
      ELSE cumulative_offsets[Len(cumulative_offsets)]

NextOffset(boundboxes_list, cumulative_offsets, i) ==
  LET offset == find_y_offset_boundboxes(boundboxes_list[i - 1], boundboxes_list[i])
  IN  IF ~offset.none
      THEN cumulative_offsets[Len(cumulative_offsets)] + offset.offset2
      ELSE cumulative_offsets[Len(cumulative_offsets)]

\* lines 31-43: for i in range(1, len(boundboxes_list))
RECURSIVE OffsetsLoop(_, _, _)
OffsetsLoop(boundboxes_list, cumulative_offsets, i) ==
  IF i > Len(boundboxes_list) THEN cumulative_offsets
  ELSE OffsetsLoop(boundboxes_list,
                   Append(cumulative_offsets,
                          NextOffset(boundboxes_list, cumulative_offsets, i)),
                   i + 1)

\* line 26: if len(boundboxes_list) <= 1: return [0.0]
find_alignment_offsets_boundboxes(boundboxes_list) ==
  IF Len(boundboxes_list) <= 1 THEN <<0>>
  ELSE OffsetsLoop(boundboxes_list, <<0>>, 2)

(***************************************************************************)
(* Alignment of one pair of screenshots: inputs and calls                  *)
(* A scene of boxes is photographed twice, the second time scrolled down   *)
(* by `shift` pixels; each box of the scene is visible in the previous     *)
(* screenshot, in the current one, or in both.                             *)
(***************************************************************************)
\* Largest scene.
MaxScene == 3

\* A box of the scene: 5px wide, h px high.
At(text, x1, y1, h) == Boundbox(x1, x1 + 5, y1, y1 + h, text, 1)

\* The boxes a scene is made of: TextA and the nearly identical TextA2 at two
\* heights and within 10px of each other horizontally, TextA2 also 11px
\* away, and an unrelated text.
SceneBoxes ==
  { At(TextA, 0, 0, 2), At(TextA, 0, 4, 2),
    At(TextA2, 10, 0, 2), At(TextA2, 10, 4, 2),
    At(TextA2, 11, 0, 2), At(TextB, 0, 4, 2) }

Shifts == {0, 3}

\* The box as the screenshot scrolled down by shift shows it.
Scrolled(box, shift) == [box EXCEPT !.y1 = @ - shift, !.y2 = @ - shift]

\* The boxes of the scene a screenshot shows, in scene order.
RECURSIVE Visible(_, _, _, _, _)
Visible(scene, where, side, shift, k) ==
  IF k > Len(scene) THEN <<>>
  ELSE IF where[k] \in {side, "both"}
       THEN <<Scrolled(scene[k], shift)>> \o Visible(scene, where, side, shift, k + 1)
       ELSE Visible(scene, where, side, shift, k + 1)

InitPair ==
  /\ \E scene \in SeqsUpTo(SceneBoxes, MaxScene) :
       \E where \in [1..Len(scene) -> {"prev", "curr", "both"}] :
         \E shift \in Shifts :
           /\ given = [scene |-> scene, where |-> where, shift |-> shift]
           /\ images = <<Visible(scene, where, "prev", 0, 1),
                         Visible(scene, where, "curr", shift, 1)>>
  /\ boxes = <<>>
  /\ pc = "input"
  /\ res = None

\* offset = find_y_offset_boundboxes(prev_boxes, curr_boxes)
CallFindYOffset ==
  /\ pc = "input"
  /\ pc' = "yoffset"
  /\ res' = find_y_offset_boundboxes(images[1], images[2])
  /\ UNCHANGED <<boxes, images, given>>

NextPair == CallFindYOffset

SpecPair == InitPair /\ [][NextPair]_vars

\* The text occurs exactly once in the collection.
UniqueIn(text, bs) == Cardinality({i \in 1..Len(bs) : bs[i].text = text}) = 1

\* Scene box k is in both screenshots and its text is unique in each.
SharedAnchor(k) ==
  /\ given.where[k] = "both"
  /\ UniqueIn(given.scene[k].text, images[1])
  /\ UniqueIn(given.scene[k].text, images[2])

\* A current box and a previous box, both of unique text, that pass the
\* similarity and x1 tests without being the two views of one shared box.
StrayMatch ==
  \E c \in 1..Len(images[2]), p \in 1..Len(images[1]) :
    LET cb == images[2][c]
        pb == images[1][p]
        r  == text_similarity(cb.text, pb.text)
    IN  /\ UniqueIn(cb.text, images[2])
        /\ UniqueIn(pb.text, images[1])
        /\ MinSimilarityDen * r[1] >= MinSimilarityNum * r[2]
        /\ Abs(cb.x1 - pb.x1) <= MaxX1Diff
        /\ ~\E k \in 1..Len(given.scene) :
              /\ given.where[k] = "both"
              /\ pb = given.scene[k]
              /\ cb = Scrolled(given.scene[k], given.shift)

\* C2 as stated: with a shared box of unique text, the known shift is returned.
C2_ShiftRecovered ==
  (pc = "yoffset" /\ \E k \in 1..Len(given.scene) : SharedAnchor(k))
    => res = Some(2 * given.shift)

\* C2 amended: with a shared box of unique text, and no unique-text current
\* box passing the similarity and x1 tests against a unique-text previous
\* box other than its own copy, the known shift is returned.
C2_ShiftRecoveredNoStray ==
  (/\ pc = "yoffset"
   /\ \E k \in 1..Len(given.scene) : SharedAnchor(k)
   /\ ~StrayMatch)
    => res = Some(2 * given.shift)

\* C2 witness: a shared anchor among other boxes, scrolled by 3 pixels and
\* recovered.
C2_Witness ==
  /\ pc = "yoffset"
  /\ given.shift = 3
  /\ Len(images[1]) = 2
  /\ Len(images[2]) = 2
  /\ \E k \in 1..Len(given.scene) : SharedAnchor(k)
  /\ ~StrayMatch
  /\ res = Some(6)

(***************************************************************************)
(* Alignment of a run of screenshots: inputs and calls                     *)
(***************************************************************************)
\* Longest run of screenshots.
MaxImages == 3

\* What one screenshot may hold: nothing, an anchor text at several scroll
\* positions (one of them half a pixel off), a repeated text, other text.
AlignCollections ==
  { <<>>,
    <<At(TextA, 0, 10, 2)>>,
    <<At(TextA, 0, 7, 2)>>,
    <<At(TextB, 0, 1, 2), At(TextA2, 10, 3, 3)>>,
    <<At(TextA, 0, 5, 2), At(TextA, 0, 9, 2)>>,
    <<At(TextB, 20, 4, 2)>> }

InitAlign ==
  /\ images \in SeqsUpTo(AlignCollections, MaxImages)
  /\ boxes = <<>>
  /\ given = "images"
  /\ pc = "input"
  /\ res = <<>>

\* offsets = find_alignment_offsets_boundboxes(ocr_boundboxes_list)
CallFindAlignmentOffsets ==
  /\ pc = "input"
  /\ pc' = "offsets"
  /\ res' = find_alignment_offsets_boundboxes(images)
  /\ UNCHANGED <<boxes, images, given>>

NextAlign == CallFindAlignmentOffsets

SpecAlign == InitAlign /\ [][NextAlign]_vars

\* The offset between images i-1 and i (twice its value).
PairOffset(i) == find_y_offset_boundboxes(images[i - 1], images[i])

\* C4: the first cumulative offset is 0; each later image's is the one before
\* plus the pair's offset when the pair has an anchor, and the one before
\* when it has none; every image gets its offset whether or not anchors are
\* missing; without any anchor all offsets are 0.
C4_Recurrence ==
  pc = "offsets" =>
    /\ Len(res) >= Len(images)
    /\ res[1] = 0
    /\ \A i \in 2..Len(images) :
         res[i] = res[i - 1] + (IF PairOffset(i).none THEN 0 ELSE PairOffset(i).offset2)
    /\ (\A i \in 2..Len(images) : PairOffset(i).none)
         => \A i \in 1..Len(res) : res[i] = 0

\* C4 witness: three images, the middle pair without an anchor, the others
\* with one.
C4_Witness ==
  /\ pc = "offsets"
  /\ Len(images) = 3
  /\ PairOffset(2).none
  /\ ~PairOffset(3).none
  /\ PairOffset(3).offset2 # 0
  /\ res[3] = PairOffset(3).offset2

\* C5: one cumulative offset is returned per input image.
C5_OnePerImage == pc = "offsets" => Len(res) = Len(images)

(***************************************************************************)
(* Python string operations used by the parsers                            *)
(***************************************************************************)
UpperCase ==
  <<"A", "B", "C", "D", "E", "F", "G", "H", "I", "J", "K", "L", "M",
    "N", "O", "P", "Q", "R", "S", "T", "U", "V", "W", "X", "Y", "Z">>

LowerCase ==
  <<"a", "b", "c", "d", "e", "f", "g", "h", "i", "j", "k", "l", "m",
    "n", "o", "p", "q", "r", "s", "t", "u", "v", "w", "x", "y", "z">>

Digits == {"0", "1", "2", "3", "4", "5", "6", "7", "8", "9"}

Whitespace == {" ", "\t", "\n"}

LowerChar(c) ==
  IF \E i \in 1..Len(UpperCase) : UpperCase[i] = c
  THEN LowerCase[CHOOSE i \in 1..Len(UpperCase) : UpperCase[i] = c]
  ELSE c

\* str.lower()
Lower(text) == [i \in 1..Len(text) |-> LowerChar(text[i])]

\* pattern in text
Contains(pattern, text) ==
  \E i \in 1..(Len(text) - Len(pattern) + 1) :
    SubSeq(text, i, i + Len(pattern) - 1) = pattern

\* str.strip()
RECURSIVE LStrip(_)
LStrip(text) ==
  IF text # <<>> /\ Head(text) \in Whitespace THEN LStrip(Tail(text)) ELSE text

RECURSIVE RStrip(_)
RStrip(text) ==
  IF text # <<>> /\ text[Len(text)] \in Whitespace
  THEN RStrip(SubSeq(text, 1, Len(text) - 1))
  ELSE text

Strip(text) == RStrip(LStrip(text))

\* text.replace(old, ''): every occurrence, left to right, not overlapping
RECURSIVE Remove(_, _)
Remove(text, old) ==
  IF Len(text) < Len(old) THEN text
  ELSE IF SubSeq(text, 1, Len(old)) = old
       THEN Remove(SubSeq(text, Len(old) + 1, Len(text)), old)
       ELSE <<Head(text)>> \o Remove(Tail(text), old)

\* " ".join(texts)
RECURSIVE JoinSpace(_)
JoinSpace(texts) ==
  IF texts = <<>> THEN <<>>
  ELSE IF Len(texts) = 1 THEN texts[1]
  ELSE texts[1] \o <<" ">> \o JoinSpace(Tail(texts))

\* [box.text for box in bs]
Texts(bs) == [i \in 1..Len(bs) |-> bs[i].text]

(***************************************************************************)
(* Boundboxes: rows, slices, text  (boundboxes.py 102-214)                 *)
(***************************************************************************)
\* the 10px of pop_top_line, pop_bottom_line, create_readable_text and
\* exclude_top_and_bottom_lines
RowTolerance == 10

Y1s(bs) == {bs[i].y1 : i \in 1..Len(bs)}

\* pop_top_line  (lines 102-109)
pop_top_line(bs) ==
  IF bs = <<>> THEN <<>>
  ELSE LET min_y1 == SetMin(Y1s(bs))
           top(box) == box.y1 <= min_y1 + RowTolerance
       IN  SelectSeq(bs, top)

\* pop_bottom_line  (lines 111-118)
pop_bottom_line(bs) ==
  IF bs = <<>> THEN <<>>
  ELSE LET max_y1 == SetMax(Y1s(bs))
           bottom(box) == box.y1 >= max_y1 - RowTolerance
       IN  SelectSeq(bs, bottom)

\* remove_matching with case_sensitive=False  (lines 120-139)
remove_matchingMut(bs, patterns) ==
  LET should_keep(box) ==
        ~\E k \in 1..Len(patterns) : Contains(patterns[k], box.text)
  IN  SelectSeq(bs, should_keep)

remove_matching(bs, patterns) ==
  LET should_keep(box) ==
        ~\E k \in 1..Len(patterns) : Contains(Lower(patterns[k]), Lower(box.text))
  IN  SelectSeq(bs, should_keep)

\* list.remove(e): drops the first element equal to e
RECURSIVE RemoveFirst(_, _)
RemoveFirst(s, e) ==
  IF s = <<>> THEN <<>>
  ELSE IF Head(s) = e THEN Tail(s)
  ELSE <<Head(s)>> \o RemoveFirst(Tail(s), e)

\* for box in current_row: remaining_boxes.remove(box)  (lines 164-165)
RemoveAllMut(remaining_boxes, current_row) == remaining_boxes

RECURSIVE RemoveAll(_, _)
RemoveAll(remaining_boxes, current_row) ==
  IF current_row = <<>> THEN remaining_boxes
  ELSE RemoveAll(RemoveFirst(remaining_boxes, Head(current_row)), Tail(current_row))

\* the while loop of create_readable_text  (lines 149-165): text_lines
RECURSIVE TextLinesMut(_)
TextLinesMut(remaining_boxes) ==
  IF remaining_boxes = <<>> THEN <<>>
  ELSE LET min_y1 == SetMin(Y1s(remaining_boxes))
           inRow(box) == box.y1 <= min_y1 + RowTolerance
           current_row == SelectSeq(remaining_boxes, inRow)
           row_text == JoinSpace(Texts(current_row))
       IN  <<row_text>> \o TextLinesMut(RemoveAll(remaining_boxes, current_row))

RECURSIVE TextLines(_)
TextLines(remaining_boxes) ==
  IF remaining_boxes = <<>> THEN <<>>
  ELSE LET min_y1 == SetMin(Y1s(remaining_boxes))
           inRow(box) == box.y1 <= min_y1 + RowTolerance
           current_row == SortedBy(SelectSeq(remaining_boxes, inRow), "x1")
           row_text == JoinSpace(Texts(current_row))
       IN  <<row_text>> \o TextLines(RemoveAll(remaining_boxes, current_row))

\* create_readable_text  (lines 141-167)
create_readable_text(bs) ==
  IF bs = <<>> THEN <<>> ELSE JoinSpace(TextLines(bs))

\* pattern.match(box.text.strip()) for r'^\d+ opmerkingen$'  (line 173)
CommentsSuffix == <<" ", "o", "p", "m", "e", "r", "k", "i", "n", "g", "e", "n">>

MatchesCommentsPatternMut(text) == Contains(CommentsSuffix, text)

MatchesCommentsPattern(text) ==
  LET t == Strip(text)
      n == Len(t) - Len(CommentsSuffix)
  IN  /\ n >= 1
      /\ \A i \in 1..n : t[i] \in Digits
      /\ SubSeq(t, n + 1, Len(t)) = CommentsSuffix

\* find_pattern(r'^\d+ opmerkingen$')  (lines 169-175): the index of the
\* first matching box, 0 for None
find_pattern(bs) ==
  LET hits == {i \in 1..Len(bs) : MatchesCommentsPattern(bs[i].text)}
  IN  IF hits = {} THEN 0 ELSE SetMin(hits)

\* find_boxes_above  (lines 177-180)
find_boxes_aboveMut(bs, y_coord, margin) ==
  LET above(box) == box.y1 <= y_coord
  IN  SelectSeq(bs, above)

find_boxes_above(bs, y_coord, margin) ==
  LET above(box) == box.y1 <= y_coord - margin
  IN  SelectSeq(bs, above)

\* find_boxes_in_region  (lines 182-185)
find_boxes_in_region(bs, start_y, end_y) ==
  LET inside(box) == start_y <= box.y1 /\ box.y1 <= end_y
  IN  SelectSeq(bs, inside)

\* exclude_top_and_bottom_lines  (lines 187-202)
exclude_top_and_bottom_linesMut(bs) ==
  IF bs = <<>> THEN <<>>
  ELSE LET min_y1 == SetMin(Y1s(bs))
           max_y1 == SetMax(Y1s(bs))
           middle(box) ==
             ~(box.y1 <= min_y1 + RowTolerance /\ box.y1 >= max_y1 - RowTolerance)
       IN  SelectSeq(bs, middle)

exclude_top_and_bottom_lines(bs) ==
  IF bs = <<>> THEN <<>>
  ELSE LET min_y1 == SetMin(Y1s(bs))
           max_y1 == SetMax(Y1s(bs))
           middle(box) ==
             ~(box.y1 <= min_y1 + RowTolerance \/ box.y1 >= max_y1 - RowTolerance)
       IN  SelectSeq(bs, middle)

\* to_text_line  (lines 209-214)
to_text_line(bs) ==
  IF bs = <<>> THEN <<>> ELSE JoinSpace(Texts(SortedBy(bs, "x1")))

(***************************************************************************)
(* content_parser.py                                                       *)
(***************************************************************************)
Leuk == <<"l", "e", "u", "k">>

Beantwoorden == <<"b", "e", "a", "n", "t", "w", "o", "o", "r", "d", "e", "n">>

Bewerkt == <<"b", "e", "w", "e", "r", "k", "t">>

Volgen == <<"V", "o", "l", "g", "e", "n">>

\* parse_comment  (lines 12-32)
parse_comment(region_boundboxes) ==
  IF region_boundboxes = <<>>
  THEN [username |-> <<>>, date |-> <<>>, text |-> <<>>]
  ELSE LET top_line == pop_top_line(region_boundboxes)
           bottom_line == pop_bottom_line(region_boundboxes)
           date_line == remove_matching(bottom_line, <<Leuk, Beantwoorden, Bewerkt>>)
           middle_boxes == exclude_top_and_bottom_lines(region_boundboxes)
       IN  [username |-> to_text_line(top_line),
            date |-> to_text_line(date_line),
            text |-> create_readable_text(middle_boxes)]

\* margin=10 in the call of find_boxes_above  (line 49)
PostMargin == 10

\* [box for box in bs if box not in taken]  (lines 63, 70)
NotInMut(bs, taken) == bs

NotIn(bs, taken) ==
  LET free(box) == box \notin Range(taken)
  IN  SelectSeq(bs, free)

EmptyPost == [author |-> <<>>, date |-> <<>>, text |-> <<>>]

\* lines 55-70: the rows parse_post cuts the boxes above the boundary into;
\* second_line and text_boxes exist only when remaining_boxes is not empty
PostRows(post_boundboxes) ==
  LET first_line == pop_top_line(post_boundboxes)
      remaining_boxes == NotIn(post_boundboxes, first_line)
      second_line == IF remaining_boxes # <<>>
                     THEN pop_top_line(remaining_boxes) ELSE <<>>
      text_boxes == IF remaining_boxes # <<>>
                    THEN NotIn(remaining_boxes, second_line) ELSE <<>>
  IN  [first_line |-> first_line,
       remaining_boxes |-> remaining_boxes,
       second_line |-> second_line,
       text_boxes |-> text_boxes]

\* parse_post  (lines 35-81)
parse_post(bs) ==
  LET comments_box == find_pattern(bs)
  IN  IF comments_box = 0 THEN EmptyPost
      ELSE LET post_boundboxes == find_boxes_above(bs, bs[comments_box].y1, PostMargin)
           IN  IF post_boundboxes = <<>> THEN EmptyPost
               ELSE LET rows == PostRows(post_boundboxes)
                        author == Strip(Remove(to_text_line(rows.first_line), Volgen))
                    IN  IF rows.remaining_boxes # <<>>
                        THEN [author |-> author,
                              date |-> to_text_line(rows.second_line),
                              text |-> create_readable_text(rows.text_boxes)]
                        ELSE [author |-> author, date |-> <<>>, text |-> <<>>]

(***************************************************************************)
(* shade_comment_regions  (facebook_scraper/ocr.py 98-209; the copy in     *)
(* facebook_processing.py 16-126 is the same code)                         *)
(***************************************************************************)
MeestRelevant ==
  <<"m", "e", "e", "s", "t", " ", "r", "e", "l", "e", "v", "a", "n", "t">>

Antwoord == <<"a", "n", "t", "w", "o", "o", "r", "d">>

\* line 126: abs(box.height - median_height) <= 5, abs(box.x1 - median_x1) <= 50
MaxHeightDiff == 5

MaxMedianX1Diff == 50

\* line 105: "beantwoorden" in box.text.lower()
IsReplyButtonMut(box) == Contains(Antwoord, Lower(box.text))

IsReplyButton(box) == Contains(Beantwoorden, Lower(box.text))

\* line 134: "meest relevant" in box.text.lower()
IsMeestRelevant(box) == Contains(MeestRelevant, Lower(box.text))

\* line 165: 'antwoord' in box.text.lower()
IsAntwoord(box) == Contains(Antwoord, Lower(box.text))

\* sorted(data) of a list of numbers
RECURSIVE InsertNum(_, _)
InsertNum(s, v) ==
  IF s = <<>> THEN <<v>>
  ELSE IF Head(s) <= v THEN <<Head(s)>> \o InsertNum(Tail(s), v)
  ELSE <<v>> \o s

RECURSIVE SortedNums(_)
SortedNums(s) ==
  IF s = <<>> THEN <<>>
  ELSE InsertNum(SortedNums(Tail(s)), Head(s))

\* statistics.median of a non-empty list, twice its value: the middle value,
\* or the mean of the two middle values
Median2(data) ==
  LET sd == SortedNums(data)
      n  == Len(sd)
  IN  IF n % 2 = 1 THEN 2 * sd[(n + 1) \div 2]
      ELSE sd[n \div 2] + sd[n \div 2 + 1]

\* lines 115-127: the buttons within the thresholds of the medians
FilterButtons(beantwoorden_boxes) ==
  LET heights == [i \in 1..Len(beantwoorden_boxes) |-> height(beantwoorden_boxes[i])]
      x1_coords == [i \in 1..Len(beantwoorden_boxes) |-> beantwoorden_boxes[i].x1]
      median_height2 == Median2(heights)
      median_x12 == Median2(x1_coords)
      near(box) ==
        /\ Abs(2 * height(box) - median_height2) <= 2 * MaxHeightDiff
        /\ Abs(2 * box.x1 - median_x12) <= 2 * MaxMedianX1Diff
  IN  SelectSeq(beantwoorden_boxes, near)

\* lines 132-136: the index of the first 'meest relevant' box, 0 for None
FindMeestRelevant(bs) ==
  LET hits == {i \in 1..Len(bs) : IsMeestRelevant(bs[i])}
  IN  IF hits = {} THEN 0 ELSE SetMin(hits)

\* lines 151-180: the region of one button, for end_y > current_y
RegionOf(bs, button, current_y) ==
  LET end_y == button.y2
      region_boundboxes == find_boxes_in_region(bs, current_y, end_y)
      top_line == pop_top_line(region_boundboxes)
      antwoord_boxes == SelectSeq(top_line, IsAntwoord)
      adjusted == region_boundboxes # <<>> /\ antwoord_boxes # <<>>
      start_y == IF adjusted THEN antwoord_boxes[1].y2 ELSE current_y
      final_boxes == IF adjusted
                     THEN find_boxes_in_region(bs, antwoord_boxes[1].y2, end_y)
                     ELSE region_boundboxes
  IN  [start_y |-> start_y,
       end_y |-> end_y,
       button |-> button,
       region_boundboxes |-> final_boxes,
       has_parsed |-> final_boxes # <<>>,
       parsed |-> parse_comment(final_boxes)]

\* lines 150-181: for button in filtered_buttons
RECURSIVE RegionsLoopMut(_, _, _, _)
RegionsLoopMut(bs, filtered_buttons, k, current_y) ==
  IF k > Len(filtered_buttons) THEN <<>>
  ELSE LET button == filtered_buttons[k]
       IN  IF button.y2 > current_y
           THEN <<RegionOf(bs, button, current_y)>>
                \o RegionsLoopMut(bs, filtered_buttons, k + 1, current_y)
           ELSE RegionsLoopMut(bs, filtered_buttons, k + 1, current_y)

RECURSIVE RegionsLoop(_, _, _, _)
RegionsLoop(bs, filtered_buttons, k, current_y) ==
  IF k > Len(filtered_buttons) THEN <<>>
  ELSE LET button == filtered_buttons[k]
       IN  IF button.y2 > current_y
           THEN <<RegionOf(bs, button, current_y)>>
                \o RegionsLoop(bs, filtered_buttons, k + 1, button.y2)
           ELSE RegionsLoop(bs, filtered_buttons, k + 1, current_y)

\* shade_comment_regions: the list comment_regions it returns
shade_comment_regions(bs) ==
  LET beantwoorden_boxes == SelectSeq(bs, IsReplyButton)
      meest_relevant == FindMeestRelevant(bs)
  IN  IF beantwoorden_boxes = <<>> THEN <<>>
      ELSE IF meest_relevant = 0 THEN <<>>
      ELSE RegionsLoop(bs,
                       SortedBy(FilterButtons(beantwoorden_boxes), "y2"),
                       1,
                       bs[meest_relevant].y2)

(***************************************************************************)
(* Comment regions: inputs and calls                                       *)
(***************************************************************************)
\* Largest collection handed to shade_comment_regions.
MaxRegionBoxes == 4

TMeestRelevant ==
  <<"M", "e", "e", "s", "t", " ", "r", "e", "l", "e", "v", "a", "n", "t">>

TBeantwoorden == <<"B", "e", "a", "n", "t", "w", "o", "o", "r", "d", "e", "n">>

TAntwoorden == <<"2", " ", "a", "n", "t", "w", "o", "o", "r", "d", "e", "n">>

THallo == <<"h", "a", "l", "l", "o">>

\* The markers of the comment-region example ('meest relevant' ending at
\* y=100, reply buttons ending at y=150 and y=220, 20px or 80px high), a
\* reply button out of the column, a reply count and lines of comment text,
\* one of them starting at the y2 of a reply button.
RegionBoxes ==
  { Boundbox(300, 420, 80, 100, TMeestRelevant, 1),
    Boundbox(300, 400, 130, 150, TBeantwoorden, 1),
    Boundbox(300, 400, 200, 220, TBeantwoorden, 1),
    Boundbox(300, 400, 70, 150, TBeantwoorden, 1),
    Boundbox(300, 400, 140, 220, TBeantwoorden, 1),
    Boundbox(420, 520, 200, 220, TBeantwoorden, 1),
    Boundbox(300, 400, 152, 170, TAntwoorden, 1),
    Boundbox(300, 350, 105, 120, THallo, 1),
    Boundbox(300, 350, 160, 175, THallo, 1),
    Boundbox(300, 350, 150, 165, THallo, 1) }

InitRegions ==
  /\ boxes \in SeqsUpTo(RegionBoxes, MaxRegionBoxes)
  /\ images = <<>>
  /\ given = "boxes"
  /\ pc = "input"
  /\ res = <<>>

\* comment_regions = shade_comment_regions(deduplicated_boundboxes, annotated_dir)
CallShadeCommentRegions ==
  /\ pc = "input"
  /\ pc' = "regions"
  /\ res' = shade_comment_regions(boxes)
  /\ UNCHANGED <<boxes, images, given>>

NextRegions == CallShadeCommentRegions

SpecRegions == InitRegions /\ [][NextRegions]_vars

\* The boxes of the collection whose text is t.
WithText(t) == {i \in 1..Len(boxes) : boxes[i].text = t}

\* The collection of the comment-region example: one 'meest relevant' box
\* ending at y=100, two reply buttons of one height and one x1 ending at
\* y=150 and y=220, no reply-count box.
RegionExample ==
  /\ \E m \in WithText(TMeestRelevant) :
       WithText(TMeestRelevant) = {m} /\ boxes[m].y2 = 100
  /\ \E b1, b2 \in WithText(TBeantwoorden) :
       /\ WithText(TBeantwoorden) = {b1, b2}
       /\ b1 # b2
       /\ boxes[b1].y2 = 150
       /\ boxes[b2].y2 = 220
       /\ height(boxes[b1]) = height(boxes[b2])
       /\ boxes[b1].x1 = boxes[b2].x1
  /\ WithText(TAntwoorden) = {}

\* The (start_y, end_y) of the regions returned.
Spans(regions) == [k \in 1..Len(regions) |-> <<regions[k].start_y, regions[k].end_y>>]

\* C3: for the collection of the comment-region example exactly the regions
\* (100, 150) and (150, 220) are returned.
C3_ExampleRegions ==
  (pc = "regions" /\ RegionExample) => Spans(res) = <<<<100, 150>>, <<150, 220>>>>

\* C9: without a box containing 'beantwoorden', and without a box containing
\* 'meest relevant', the list of regions returned is empty.
C9_NoMarkerNoRegions ==
  pc = "regions" =>
    /\ WithText(TBeantwoorden) = {} => res = <<>>
    /\ WithText(TMeestRelevant) = {} => res = <<>>

\* C9 witness: reply buttons without 'meest relevant', and the empty result.
C9_Witness ==
  /\ pc = "regions"
  /\ Cardinality(WithText(TBeantwoorden)) >= 2
  /\ WithText(TMeestRelevant) = {}
  /\ res = <<>>

\* C9 witness of the other case: 'meest relevant' and a reply count without
\* any reply button.
C9_WitnessNoButton ==
  /\ pc = "regions"
  /\ WithText(TMeestRelevant) # {}
  /\ WithText(TAntwoorden) # {}
  /\ WithText(TBeantwoorden) = {}
  /\ res = <<>>

(***************************************************************************)
(* Post parsing: inputs and calls                                          *)
(***************************************************************************)
\* Largest collection handed to parse_post.
MaxPostBoxes == 5

T5Opmerkingen ==
  <<"5", " ", "o", "p", "m", "e", "r", "k", "i", "n", "g", "e", "n">>

T12Opmerkingen ==
  <<" ", "1", "2", " ", "o", "p", "m", "e", "r", "k", "i", "n", "g", "e", "n", " ">>

TAlleOpmerkingen ==
  <<"A", "l", "l", "e", " ", "5", " ", "o", "p", "m", "e", "r", "k", "i", "n", "g", "e", "n">>

TJan == <<"J", "a", "n">>

TDate == <<"1", " ", "u">>

TDag == <<"d", "a", "g">>

TRand == <<"r", "a", "n", "d">>

\* The texts of the universe that match ^\d+ opmerkingen$ once trimmed.
BoundaryTexts == {T5Opmerkingen, T12Opmerkingen}

\* A comments boundary at y1=300 and one at y1=130, a text that only
\* contains the boundary words, an author row (name, and 'Volgen' 4px lower
\* to its right), a date row, a body row of two boxes, and a box 5px above
\* the boundary, inside the margin.
PostBoxes ==
  { Boundbox(300, 400, 300, 320, T5Opmerkingen, 1),
    Boundbox(300, 400, 130, 145, T12Opmerkingen, 1),
    Boundbox(420, 560, 300, 320, TAlleOpmerkingen, 1),
    Boundbox(300, 340, 100, 115, TJan, 1),
    Boundbox(400, 450, 104, 118, Volgen, 1),
    Boundbox(300, 330, 120, 135, TDate, 1),
    Boundbox(400, 450, 150, 165, THallo, 1),
    Boundbox(300, 330, 155, 170, TDag, 1),
    Boundbox(300, 340, 295, 310, TRand, 1) }

InitPost ==
  /\ boxes \in SeqsUpTo(PostBoxes, MaxPostBoxes)
  /\ images = <<>>
  /\ given = "boxes"
  /\ pc = "input"
  /\ res = EmptyPost

\* post_data = parse_post(deduplicated_boundboxes)
CallParsePost ==
  /\ pc = "input"
  /\ pc' = "post"
  /\ res' = parse_post(boxes)
  /\ UNCHANGED <<boxes, images, given>>

NextPost == CallParsePost

SpecPost == InitPost /\ [][NextPost]_vars

\* The boxes of the collection at the indices S, in collection order.
RECURSIVE PickFrom(_, _, _)
PickFrom(bs, S, i) ==
  IF i > Len(bs) THEN <<>>
  ELSE IF i \in S THEN <<bs[i]>> \o PickFrom(bs, S, i + 1)
  ELSE PickFrom(bs, S, i + 1)

\* The boundary: the first box, in collection order, with a boundary text.
HasBoundary == \E i \in 1..Len(boxes) : boxes[i].text \in BoundaryTexts

BoundaryIdx == SetMin({i \in 1..Len(boxes) : boxes[i].text \in BoundaryTexts})

\* The boxes at least 10px above the boundary, and their rows.
AboveIdx == {i \in 1..Len(boxes) : boxes[i].y1 <= boxes[BoundaryIdx].y1 - 10}

TopRowIdx(S) ==
  {i \in S : boxes[i].y1 <= SetMin({boxes[j].y1 : j \in S}) + 10}

AuthorRowIdx == TopRowIdx(AboveIdx)

DateRowIdx == TopRowIdx(AboveIdx \ AuthorRowIdx)

BodyIdx == (AboveIdx \ AuthorRowIdx) \ DateRowIdx

\* The collection has a boundary and, above it, an author row, a date row
\* and at least one body row.
PostWithRows ==
  /\ HasBoundary
  /\ AboveIdx # {}
  /\ AboveIdx \ AuthorRowIdx # {}
  /\ BodyIdx # {}

\* The three fields as C7 describes them.
FieldsAsDescribed ==
  /\ res.author = Strip(Remove(to_text_line(PickFrom(boxes, AuthorRowIdx, 1)), Volgen))
  /\ res.date = to_text_line(PickFrom(boxes, DateRowIdx, 1))
  /\ res.text = create_readable_text(PickFrom(boxes, BodyIdx, 1))

\* C7 as stated: with a boundary and author, date and body rows above it,
\* the three fields are non-empty and are the author row without 'Volgen',
\* the date row and the reconstruction of the body rows.
C7_PostFields ==
  (pc = "post" /\ PostWithRows) =>
    /\ FieldsAsDescribed
    /\ res.author # <<>>
    /\ res.date # <<>>
    /\ res.text # <<>>

\* C7 amended: the same, except that author is non-empty exactly when some
\* box of the author row has text left once 'Volgen' and surrounding
\* whitespace are removed.
C7_PostFieldsAmended ==
  (pc = "post" /\ PostWithRows) =>
    /\ FieldsAsDescribed
    /\ res.author # <<>>
         <=> \E i \in AuthorRowIdx : Strip(Remove(boxes[i].text, Volgen)) # <<>>
    /\ res.date # <<>>
    /\ res.text # <<>>

\* C7 witness: boundary, 'Jan' and 'Volgen' in the author row, a date and a
\* body box.
C7_Witness ==
  /\ pc = "post"
  /\ PostWithRows
  /\ Len(boxes) = 5
  /\ Cardinality(AuthorRowIdx) = 2
  /\ res = [author |-> TJan, date |-> TDate, text |-> THallo]

\* C8: without a box matching the boundary pattern, and with a boundary but
\* no box at least 10px above it, the record of three empty strings is
\* returned.
C8_EmptyRecord ==
  pc = "post" =>
    /\ ~HasBoundary => res = [author |-> <<>>, date |-> <<>>, text |-> <<>>]
    /\ (HasBoundary /\ AboveIdx = {})
         => res = [author |-> <<>>, date |-> <<>>, text |-> <<>>]

\* C8 witness: a text containing the boundary words without matching the
\* pattern, above boxes that would otherwise form the post.
C8_Witness ==
  /\ pc = "post"
  /\ ~HasBoundary
  /\ \E i \in 1..Len(boxes) : boxes[i].text = TAlleOpmerkingen
  /\ \E i \in 1..Len(boxes) : boxes[i].text = TJan
  /\ res = [author |-> <<>>, date |-> <<>>, text |-> <<>>]

\* C8 witness of the other case: a boundary with boxes only inside the margin.
C8_WitnessMargin ==
  /\ pc = "post"
  /\ HasBoundary
  /\ AboveIdx = {}
  /\ \E i \in 1..Len(boxes) : boxes[i].text = TRand
  /\ res = [author |-> <<>>, date |-> <<>>, text |-> <<>>]

(***************************************************************************)
(* Construction of boxes  (boundboxes.py 8-14, easy_ocr.py 34-74)          *)
(***************************************************************************)
\* An argument given for a float field: a number, or a str that is no number.
Num(v) == [isnum |-> TRUE, v |-> v]

NotANumber == [isnum |-> FALSE, v |-> 0]

\* Boundbox(x1=.., x2=.., y1=.., y2=.., text=.., confidence=..): a pydantic
\* BaseModel with float fields and no validator. It raises ValidationError
\* when a coordinate is not a number and accepts every other input.
ValidatesMut(x1, x2, y1, y2) ==
  /\ x1.isnum /\ x2.isnum /\ y1.isnum /\ y2.isnum
  /\ x1.v <= x2.v
  /\ y1.v <= y2.v

Validates(x1, x2, y1, y2) == x1.isnum /\ x2.isnum /\ y1.isnum /\ y2.isnum

\* The content area main() passes to EasyOCR  (ocr.py 15-18, 226-233)
POST_BOUNDARY_X1 == 280

POST_BOUNDARY_X2 == 1020

POST_BOUNDARY_Y1 == 90

POST_BOUNDARY_Y2 == 580

\* easy_ocr.py 57-60: the bounding box of the four points of a detection
QuadBox(bbox, text, confidence) ==
  LET x_coords == {bbox[k][1] : k \in 1..4}
      y_coords == {bbox[k][2] : k \in 1..4}
  IN  Boundbox(SetMin(x_coords), SetMax(x_coords),
               SetMin(y_coords), SetMax(y_coords), text, confidence)

\* easy_ocr.py 63-66: the content area filter
InContentArea(box) ==
  /\ POST_BOUNDARY_X1 <= box.x1
  /\ box.x2 <= POST_BOUNDARY_X2
  /\ POST_BOUNDARY_Y1 <= box.y1
  /\ box.y2 <= POST_BOUNDARY_Y2

\* EasyOCR.__call__ with content_filter=True  (easy_ocr.py 54-74): result is
\* the list of (bbox, text, confidence) of reader.readtext
RECURSIVE EasyOCRCall(_)
EasyOCRCall(result) ==
  IF result = <<>> THEN <<>>
  ELSE LET box == QuadBox(Head(result)[1], Head(result)[2], Head(result)[3])
       IN  IF InContentArea(box) THEN <<box>> \o EasyOCRCall(Tail(result))
           ELSE EasyOCRCall(Tail(result))

(***************************************************************************)
(* Construction: inputs and calls                                          *)
(***************************************************************************)
\* Most boxes constructed one by one, and most detections of one OCR call.
MaxBuilt == 2

MaxDetections == 1

CtorArgs == {Num(300), Num(400), NotANumber}

\* The corners an OCR detection may have: in any order, one x outside the
\* content area.
QuadPoints == {<<270, 100>>, <<300, 100>>, <<300, 200>>, <<400, 200>>}

Quads == [1..4 -> QuadPoints]

Detections == {<<q, THallo, 1>> : q \in Quads}

InitBox ==
  /\ boxes = <<>>
  /\ images = <<>>
  /\ given = "none"
  /\ pc = "input"
  /\ res = "none"

\* box = Boundbox(...); boxes.append(box), the arguments validating
ConstructBox ==
  /\ Len(boxes) < MaxBuilt
  /\ \E x1, x2, y1, y2 \in CtorArgs :
       /\ Validates(x1, x2, y1, y2)
       /\ boxes' = Append(boxes, Boundbox(x1.v, x2.v, y1.v, y2.v, THallo, 1))
  /\ pc' = "constructed"
  /\ res' = "accepted"
  /\ UNCHANGED <<images, given>>

\* Boundbox(...) raising ValidationError: nothing is appended
RejectBox ==
  /\ Len(boxes) < MaxBuilt
  /\ \E x1, x2, y1, y2 \in CtorArgs : ~Validates(x1, x2, y1, y2)
  /\ pc' = "constructed"
  /\ res' = "ValidationError"
  /\ UNCHANGED <<boxes, images, given>>

\* boundboxes = ocr_reader(str(image_file))
CallEasyOCR ==
  /\ pc = "input"
  /\ \E result \in SeqsUpTo(Detections, MaxDetections) :
       boxes' = EasyOCRCall(result)
  /\ pc' = "ocr"
  /\ res' = "accepted"
  /\ UNCHANGED <<images, given>>

NextBox == ConstructBox \/ RejectBox \/ CallEasyOCR

SpecBox == InitBox /\ [][NextBox]_vars

\* C10: a box with x2 < x1 or y2 < y1 is never accepted, so every box of
\* every collection has x1 <= x2 and y1 <= y2.
C10_OnlyWellFormedBoxes == \A i \in 1..Len(boxes) : WellFormed(boxes[i])

(***************************************************************************)
(* Floating-point addition                                                 *)
(* box.y1 += y_offset and d1 + d2 are additions of Python floats: the      *)
(* exact sum rounded to the nearest value with a fixed number of           *)
(* significant bits, ties to the even one. Values are counted in the       *)
(* smallest unit the inputs are multiples of; FloatBits stands for the 53  *)
(* significant bits of a float, scaled down to the integers TLC has.       *)
(***************************************************************************)
FloatBits == 8

RECURSIVE Pow2(_)
Pow2(n) == IF n = 0 THEN 1 ELSE 2 * Pow2(n - 1)

\* The least e >= from with m < 2^(FloatBits + e): the exponent of the unit
\* in the last place of m.
RECURSIVE UlpExponent(_, _)
UlpExponent(m, from) ==
  IF m < Pow2(FloatBits + from) THEN from ELSE UlpExponent(m, from + 1)

\* Round to nearest, ties to even
FloatRound(v) ==
  LET m == Abs(v)
      ulp == Pow2(UlpExponent(m, 0))
      q == m \div ulp
      r == m % ulp
      up == 2 * r > ulp \/ (2 * r = ulp /\ q % 2 = 1)
      mag == (IF up THEN q + 1 ELSE q) * ulp
  IN  IF v >= 0 THEN mag ELSE 0 - mag

FloatAdd(a, b) == FloatRound(a + b)

(***************************************************************************)
(* Boundboxes.apply_offset  (boundboxes.py 34-42)                          *)
(***************************************************************************)
apply_offsetMut(bs, y_offset) ==
  [i \in 1..Len(bs) |-> [bs[i] EXCEPT !.y1 = FloatAdd(@, y_offset)]]

apply_offset(bs, y_offset) ==
  [i \in 1..Len(bs) |->
     [bs[i] EXCEPT !.y1 = FloatAdd(@, y_offset), !.y2 = FloatAdd(@, y_offset)]]

(***************************************************************************)
(* Offsetting: inputs and calls                                            *)
(***************************************************************************)
MaxOffsetBoxes == 2

\* The first value from which floats are two units apart.
Big == Pow2(FloatBits)

OffsetBoxes ==
  {Boundbox(xs[1], xs[2], ys[1], ys[2], t, 1) :
     xs \in {<<0, 4>>, <<2, 6>>}, ys \in {<<0, 3>>, <<1, 5>>, <<5, 5>>},
     t \in {TextA, TextB}}

Offsets == {0, 1, 3, 0 - 1, 0 - 7, Big}

InitOffset ==
  /\ boxes \in SeqsUpTo(OffsetBoxes, MaxOffsetBoxes)
  /\ images = <<>>
  /\ given \in [d1 : Offsets, d2 : Offsets]
  /\ pc = "input"
  /\ res = <<>>

\* C.apply_offset(d1).apply_offset(d2), C.apply_offset(d1 + d2) and
\* C.apply_offset(0)
CallApplyOffset ==
  /\ pc = "input"
  /\ pc' = "offset"
  /\ res' = [first |-> apply_offset(boxes, given.d1),
             twice |-> apply_offset(apply_offset(boxes, given.d1), given.d2),
             once |-> apply_offset(boxes, FloatAdd(given.d1, given.d2)),
             zero |-> apply_offset(boxes, 0)]
  /\ UNCHANGED <<boxes, images, given>>

NextOffsetting == CallApplyOffset

SpecOffset == InitOffset /\ [][NextOffsetting]_vars

\* apply_offset leaves x1, x2, text, confidence, the number and the order
\* of the boxes alone.
SameButY(shifted, bs) ==
  /\ Len(shifted) = Len(bs)
  /\ \A i \in 1..Len(bs) :
       shifted[i] = [bs[i] EXCEPT !.y1 = shifted[i].y1, !.y2 = shifted[i].y2]

ShiftedExactly(shifted, bs, d) ==
  /\ Len(shifted) = Len(bs)
  /\ \A i \in 1..Len(bs) :
       /\ shifted[i].y1 = bs[i].y1 + d
       /\ shifted[i].y2 = bs[i].y2 + d

\* C11 as stated: offsetting by d1 and then by d2 equals offsetting by
\* d1 + d2, offsetting by 0 changes nothing, and apply_offset moves y1 and
\* y2 by exactly the offset and leaves everything else alone.
C11_OffsetLaws ==
  pc = "offset" =>
    /\ res.twice = res.once
    /\ res.zero = boxes
    /\ SameButY(res.first, boxes)
    /\ ShiftedExactly(res.first, boxes, given.d1)

\* No sum of up to three of the values involved needs rounding.
SmallMagnitude(v) == 4 * Abs(v) <= Big

ExactSums ==
  /\ SmallMagnitude(given.d1)
  /\ SmallMagnitude(given.d2)
  /\ \A i \in 1..Len(boxes) :
       SmallMagnitude(boxes[i].y1) /\ SmallMagnitude(boxes[i].y2)

\* C11 amended: offsetting by 0 changes nothing and apply_offset leaves
\* everything but y1 and y2 alone; when the coordinates and offsets are
\* multiples of one unit and small enough for their sums to be floats,
\* y1 and y2 move by exactly the offset and offsetting by d1 and then by
\* d2 equals offsetting by d1 + d2.
C11_OffsetLawsExact ==
  pc = "offset" =>
    /\ res.zero = boxes
    /\ SameButY(res.first, boxes)
    /\ SameButY(res.twice, boxes)
    /\ ExactSums =>
         /\ res.twice = res.once
         /\ ShiftedExactly(res.first, boxes, given.d1)
         /\ ShiftedExactly(res.twice, boxes, given.d1 + given.d2)

\* C11 witness: two boxes moved by two non-zero offsets without rounding.
C11_Witness ==
  /\ pc = "offset"
  /\ Len(boxes) = 2
  /\ given.d1 = 3 /\ given.d2 = 0 - 7
  /\ ExactSums
  /\ res.twice = res.once
  /\ res.twice # boxes
  /\ res.first # boxes

(***************************************************************************)
(* Rows: inputs and calls                                                  *)
(***************************************************************************)
MaxRowBoxes == 3

THello == <<"h", "e", "l", "l", "o">>

TWorld == <<"w", "o", "r", "l", "d">>

TLeuk == <<"L", "e", "u", "k">>

\* y1 values on both sides of the 10px tolerance below the smallest and
\* above the largest
RowY1s == {0, 2, 10, 11, 12, 22}

Word(text, x1, y1) == Boundbox(x1, x1 + 40, y1, y1 + 10, text, 1)

\* 'hello' at the left and 'world' at the right of every line, two boxes
\* sharing an x1, and 'Leuk' buttons
RowBoxes ==
  {Word(THello, 0, y) : y \in RowY1s} \cup {Word(TWorld, 60, y) : y \in RowY1s}
    \cup {Word(TWorld, 0, 2), Word(TLeuk, 30, 11), Word(TLeuk, 30, 22)}

InitRows ==
  /\ boxes \in SeqsUpTo(RowBoxes, MaxRowBoxes)
  /\ images = <<>>
  /\ given = "boxes"
  /\ pc = "input"
  /\ res = <<>>

\* top, middle and bottom rows of one collection
CallRowSplit ==
  /\ pc = "input"
  /\ pc' = "rows"
  /\ res' = [top |-> pop_top_line(boxes),
             middle |-> exclude_top_and_bottom_lines(boxes),
             bottom |-> pop_bottom_line(boxes)]
  /\ UNCHANGED <<boxes, images, given>>

\* text = boxes.create_readable_text()
CallCreateReadableText ==
  /\ pc = "input"
  /\ pc' = "text"
  /\ res' = create_readable_text(boxes)
  /\ UNCHANGED <<boxes, images, given>>

\* comment_data = parse_comment(region_boundboxes)
CallParseComment ==
  /\ pc = "input"
  /\ pc' = "comment"
  /\ res' = parse_comment(boxes)
  /\ UNCHANGED <<boxes, images, given>>

NextRows == CallRowSplit \/ CallCreateReadableText \/ CallParseComment

SpecRows == InitRows /\ [][NextRows]_vars

\* C12: for a non-empty collection every box is in the top row, the middle
\* rows or the bottom row; the middle rows share no box with the top or the
\* bottom row; top-row boxes have y1 <= min(y1) + 10 and bottom-row boxes
\* have y1 >= max(y1) - 10.
C12_RowsCover ==
  (pc = "rows" /\ boxes # <<>>) =>
    /\ Range(boxes) \subseteq
         Range(res.top) \cup Range(res.middle) \cup Range(res.bottom)
    /\ Range(res.middle) \cap (Range(res.top) \cup Range(res.bottom)) = {}
    /\ \A b \in Range(res.top) : b.y1 <= SetMin(Y1s(boxes)) + 10
    /\ \A b \in Range(res.bottom) : b.y1 >= SetMax(Y1s(boxes)) - 10

\* C12 witness: three boxes, one in each of the top, middle and bottom rows.
C12_Witness ==
  /\ pc = "rows"
  /\ Len(boxes) = 3
  /\ Len(res.top) = 1 /\ Len(res.middle) = 1 /\ Len(res.bottom) = 1

\* The ways of putting a list in ascending x1 order, and the texts they give.
Orderings(n) == {p \in [1..n -> 1..n] : \A i, j \in 1..n : i # j => p[i] # p[j]}

AscendingJoins(row) ==
  {JoinSpace([k \in 1..Len(row) |-> row[p[k]].text]) :
     p \in {q \in Orderings(Len(row)) :
              \A k \in 1..(Len(row) - 1) : row[q[k]].x1 <= row[q[k + 1]].x1}}

\* The smallest y1, then the smallest y1 more than 10 below it, and so on.
RECURSIVE RowMinima(_)
RowMinima(ys) ==
  IF ys = {} THEN <<>>
  ELSE <<SetMin(ys)>> \o RowMinima({y \in ys : y > SetMin(ys) + 10})

RowAt(bs, min_y1) ==
  LET here(box) == min_y1 <= box.y1 /\ box.y1 <= min_y1 + 10
  IN  SelectSeq(bs, here)

\* The texts the rows from the k-th on may give, each row in some ascending
\* x1 order.
RECURSIVE Readings(_, _, _)
Readings(bs, minima, k) ==
  IF k > Len(minima) THEN {<<>>}
  ELSE {<<t>> \o rest : t \in AscendingJoins(RowAt(bs, minima[k])),
                        rest \in Readings(bs, minima, k + 1)}

RowReconstructions(bs) ==
  {JoinSpace(lines) : lines \in Readings(bs, RowMinima(Y1s(bs)), 1)}

\* C13: create_readable_text emits the rows (boxes within 10px of the
\* smallest remaining y1) top to bottom, each in ascending x1 order, all
\* joined by single spaces; the empty collection gives the empty string.
C13_ReadableText ==
  pc = "text" =>
    /\ res \in RowReconstructions(boxes)
    /\ boxes = <<>> => res = <<>>

\* C13 witness: 'world' (x1 60, y1 0) before 'hello' (x1 0, y1 2) read as
\* 'hello world'.
C13_Witness ==
  /\ pc = "text"
  /\ boxes = <<Word(TWorld, 60, 0), Word(THello, 0, 2)>>
  /\ res = THello \o <<" ">> \o TWorld

\* The boxes of the top row, of the bottom row without the buttons, and of
\* neither row, by their positions in the collection.
CommentTopIdx == {i \in 1..Len(boxes) : boxes[i].y1 <= SetMin(Y1s(boxes)) + 10}

CommentBottomIdx == {i \in 1..Len(boxes) : boxes[i].y1 >= SetMax(Y1s(boxes)) - 10}

IsButtonText(text) ==
  \E word \in {Leuk, Beantwoorden, Bewerkt} : Contains(word, Lower(text))

CommentDateIdx == {i \in CommentBottomIdx : ~IsButtonText(boxes[i].text)}

CommentBodyIdx == (1..Len(boxes)) \ (CommentTopIdx \cup CommentBottomIdx)

\* C16: parse_comment of an empty region is the record of three empty
\* strings; otherwise username is the top row (y1 <= min(y1) + 10) in
\* ascending x1 order, date is the bottom row (y1 >= max(y1) - 10) without
\* the boxes whose lowercased text contains 'leuk', 'beantwoorden' or
\* 'bewerkt', in ascending x1 order, and text is the row reconstruction of
\* the boxes in neither row.
C16_CommentFields ==
  pc = "comment" =>
    IF boxes = <<>>
    THEN res = [username |-> <<>>, date |-> <<>>, text |-> <<>>]
    ELSE /\ res.username \in AscendingJoins(PickFrom(boxes, CommentTopIdx, 1))
         /\ res.date \in AscendingJoins(PickFrom(boxes, CommentDateIdx, 1))
         /\ res.text \in RowReconstructions(PickFrom(boxes, CommentBodyIdx, 1))

\* C16 witness: a comment of three rows whose bottom row holds a date word
\* and a 'Leuk' button.
C16_Witness ==
  /\ pc = "comment"
  /\ boxes = <<Word(TLeuk, 30, 22), Word(TWorld, 60, 22), Word(THello, 0, 0)>>
  /\ res = [username |-> THello, date |-> TWorld, text |-> <<>>]

\* C16 witness: a body between the username row and the date row.
C16_WitnessBody ==
  /\ pc = "comment"
  /\ Len(boxes) = 3
  /\ res.username # <<>> /\ res.date # <<>> /\ res.text # <<>>

(***************************************************************************)
(* align_and_combine_images  (ocr.py 22-64)                                *)
(* The offsets are multiples of half a pixel and are carried as twice      *)
(* their value, so the unified collection carries y1 and y2 in half        *)
(* pixels; x1 and x2 stay in pixels.                                       *)
(***************************************************************************)
HalfPixels(bs) ==
  [i \in 1..Len(bs) |-> [bs[i] EXCEPT !.y1 = 2 * @, !.y2 = 2 * @]]

\* lines 35-38: the boxes of one image, aligned
AlignedMut(boundboxes, offset) ==
  IF offset # 0
  THEN apply_offset(HalfPixels(boundboxes), 0 - offset)
  ELSE HalfPixels(boundboxes)

Aligned(boundboxes, offset) ==
  IF offset # 0
  THEN apply_offset(HalfPixels(boundboxes), offset)
  ELSE HalfPixels(boundboxes)

\* lines 34-39: for i, (boundboxes, offset) in enumerate(zip(...)); zip stops
\* at the shorter of the two lists
RECURSIVE CombineLoop(_, _, _)
CombineLoop(ocr_boundboxes_list, offsets, i) ==
  IF i > Min2(Len(ocr_boundboxes_list), Len(offsets)) THEN <<>>
  ELSE Aligned(ocr_boundboxes_list[i], offsets[i])
         \o CombineLoop(ocr_boundboxes_list, offsets, i + 1)

align_and_combine_images(ocr_boundboxes_list) ==
  CombineLoop(ocr_boundboxes_list,
              find_alignment_offsets_boundboxes(ocr_boundboxes_list), 1)

\* aligned_boundboxes = align_and_combine_images(ocr_boundboxes_list, ...)
CallAlignAndCombine ==
  /\ pc = "input"
  /\ pc' = "combined"
  /\ res' = align_and_combine_images(images)
  /\ UNCHANGED <<boxes, images, given>>

NextCombine == CallAlignAndCombine

SpecCombine == InitAlign /\ [][NextCombine]_vars

\* The number of boxes of the images before image i.
RECURSIVE BoxesBefore(_)
BoxesBefore(i) == IF i <= 1 THEN 0 ELSE BoxesBefore(i - 1) + Len(images[i - 1])

\* C15: the unified collection holds every box of every image once, image
\* by image and in each image's order, the boxes of image i moved
\* vertically by cumulative offset i with x1, x2 and text unchanged.
C15_UnifiedCollection ==
  pc = "combined" =>
    LET offsets == find_alignment_offsets_boundboxes(images)
    IN  /\ Len(res) = BoxesBefore(Len(images) + 1)
        /\ \A i \in 1..Len(images) : \A k \in 1..Len(images[i]) :
             res[BoxesBefore(i) + k] =
               [images[i][k] EXCEPT !.y1 = 2 * @ + offsets[i],
                                    !.y2 = 2 * @ + offsets[i]]

\* C15 witness: three images with boxes, the last two moved by different
\* offsets.
C15_Witness ==
  /\ pc = "combined"
  /\ Len(images) = 3
  /\ \A i \in 1..3 : images[i] # <<>>
  /\ LET offsets == find_alignment_offsets_boundboxes(images)
     IN  offsets[2] # 0 /\ offsets[3] # offsets[2] /\ offsets[3] # 0
  /\ Len(res) >= 4

(***************************************************************************)
(* Boundboxes operations on objects  (boundboxes.py 29-214)                *)
(* Whether a call changes its receiver depends on which objects it writes  *)
(* to, so here the boxes are objects of a heap (a box object is its        *)
(* position in heap) and a Boundboxes.boxes list is a list of positions.   *)
(* The operations pick and order the boxes of the receiver as the          *)
(* operators above do; what is added is where their writes go.             *)
(***************************************************************************)
\* The box object id with its fields
Tag(box, id) ==
  [x1 |-> box.x1, x2 |-> box.x2, y1 |-> box.y1, y2 |-> box.y2,
   text |-> box.text, confidence |-> box.confidence, id |-> id]

Tagged(heap, ids) == [k \in 1..Len(ids) |-> Tag(heap[ids[k]], ids[k])]

Ids(tagged) == [k \in 1..Len(tagged) |-> tagged[k].id]

\* The boxes a list holds, as values
Deref(heap, ids) == [k \in 1..Len(ids) |-> heap[ids[k]]]

\* box.model_copy()  (line 38): a new object
model_copyMut(heap, id) == id

model_copy(heap, id) == Len(heap) + 1

\* lines 37-41: the loop of apply_offset; returns the heap and adjusted_boxes
RECURSIVE ApplyOffsetLoop(_, _, _, _, _)
ApplyOffsetLoop(heap, ids, k, y_offset, adjusted_boxes) ==
  IF k > Len(ids) THEN [heap |-> heap, out |-> adjusted_boxes]
  ELSE LET adjusted_box == model_copy(heap, ids[k])
           copied == IF adjusted_box > Len(heap)
                     THEN Append(heap, heap[ids[k]])
                     ELSE heap
           written == [copied EXCEPT ![adjusted_box].y1 = FloatAdd(@, y_offset),
                                     ![adjusted_box].y2 = FloatAdd(@, y_offset)]
       IN  ApplyOffsetLoop(written, ids, k + 1, y_offset,
                           Append(adjusted_boxes, adjusted_box))

\* self.boxes.copy()  (line 146): a new list, here the position after the
\* lists that exist
list_copyMut(lists, l) == l

list_copy(lists, l) == Len(lists) + 1

\* What is left of the lists that exist once list l has been emptied by the
\* loop of create_readable_text (lines 149-165); a list made by the call is
\* dropped with it.
Emptied(lists, l) ==
  IF l <= Len(lists) THEN [lists EXCEPT ![l] = <<>>] ELSE lists

\* filter_content_area  (lines 44-51)
filter_content_area(bs) ==
  LET content(box) ==
        280 <= box.x1 /\ box.x2 <= 1020 /\ 90 <= box.y1 /\ box.y2 <= 580
  IN  SelectSeq(bs, content)

\* sort_by_coordinates  (lines 204-207)
sort_by_coordinates(bs) == SortedBy(bs, "x1")

(***************************************************************************)
(* Operations on objects: inputs and calls                                 *)
(***************************************************************************)
MaxFrameBoxes == 2

MaxCalls == 2

FrameBoxes ==
  {Word(THello, 0, 0), Word(TWorld, 60, 2), Word(TWorld, 0, 11),
   Word(TLeuk, 30, 22), Word(THello, 300, 100)}

\* res.heap holds the box objects, res.lists the receiver's list and the
\* list of the collection returned last; boxes is what the first receiver
\* holds and given what it held at the start.
InitFrame ==
  /\ boxes \in SeqsUpTo(FrameBoxes, MaxFrameBoxes)
  /\ images = <<>>
  /\ given = boxes
  /\ pc = "input"
  /\ res = [heap |-> boxes, lists |-> <<[k \in 1..Len(boxes) |-> k]>>,
            calls |-> 0, out |-> <<"none">>]

\* The call returned out: heap and lists are what it left
Returned(heap, lists, out) ==
  /\ res.calls < MaxCalls
  /\ res' = [heap |-> heap, lists |-> lists, calls |-> res.calls + 1, out |-> out]
  /\ boxes' = Deref(heap, lists[1])
  /\ pc' = "called"
  /\ UNCHANGED <<images, given>>

\* The call returned a new collection made of the boxes of tagged
ReturnedBoxes(tagged) ==
  Returned(res.heap, <<res.lists[1], Ids(tagged)>>, <<"Boundboxes">>)

Receivers == 1..Len(res.lists)

Self(r) == Tagged(res.heap, res.lists[r])

FrameApplyOffset ==
  \E r \in Receivers, y_offset \in {0, 3} :
    LET done == ApplyOffsetLoop(res.heap, res.lists[r], 1, y_offset, <<>>)
    IN  Returned(done.heap, <<res.lists[1], done.out>>, <<"Boundboxes">>)

FrameFilterContentArea == \E r \in Receivers : ReturnedBoxes(filter_content_area(Self(r)))

FrameRemoveDuplicates == \E r \in Receivers : ReturnedBoxes(remove_duplicates(Self(r)))

FramePopTopLine == \E r \in Receivers : ReturnedBoxes(pop_top_line(Self(r)))

FramePopBottomLine == \E r \in Receivers : ReturnedBoxes(pop_bottom_line(Self(r)))

FrameRemoveMatching ==
  \E r \in Receivers : ReturnedBoxes(remove_matching(Self(r), <<Leuk>>))

\* returns a str; remaining_boxes is emptied
FrameCreateReadableText ==
  \E r \in Receivers :
    Returned(res.heap, Emptied(res.lists, list_copy(res.lists, r)),
             <<"str", create_readable_text(Deref(res.heap, res.lists[r]))>>)

FrameFindBoxesAbove ==
  \E r \in Receivers : ReturnedBoxes(find_boxes_above(Self(r), 12, 10))

FrameFindBoxesInRegion ==
  \E r \in Receivers : ReturnedBoxes(find_boxes_in_region(Self(r), 0, 11))

FrameExcludeTopAndBottomLines ==
  \E r \in Receivers : ReturnedBoxes(exclude_top_and_bottom_lines(Self(r)))

FrameSortByCoordinates ==
  \E r \in Receivers : ReturnedBoxes(sort_by_coordinates(Self(r)))

\* returns a str; sorted() makes its own list
FrameToTextLine ==
  \E r \in Receivers :
    Returned(res.heap, res.lists, <<"str", to_text_line(Self(r))>>)

NextFrame ==
  \/ FrameApplyOffset
  \/ FrameFilterContentArea
  \/ FrameRemoveDuplicates
  \/ FramePopTopLine
  \/ FramePopBottomLine
  \/ FrameRemoveMatching
  \/ FrameCreateReadableText
  \/ FrameFindBoxesAbove
  \/ FrameFindBoxesInRegion
  \/ FrameExcludeTopAndBottomLines
  \/ FrameSortByCoordinates
  \/ FrameToTextLine

SpecFrame == InitFrame /\ [][NextFrame]_vars

\* C14: whatever Boundboxes operations have been called, on the collection
\* or on a collection one of them returned, the collection holds the boxes
\* it held at the start, in the same order and with the same fields.
C14_ReceiverUnchanged ==
  /\ boxes = given
  /\ res.lists[1] = [k \in 1..Len(given) |-> k]
  /\ \A k \in 1..Len(given) : res.heap[k] = given[k]

\* C14 witness: apply_offset called on a returned collection that shares its
\* two box objects with the first receiver, which made two new objects.
C14_Witness ==
  /\ pc = "called"
  /\ res.calls = 2
  /\ Len(given) = 2
  /\ Len(res.heap) = 4
  /\ res.heap[3].y1 = given[2].y1 + 3
  /\ boxes = given

(***************************************************************************)
(* Comment regions: extent and boxes                                       *)
(***************************************************************************)
\* C17: every region returned has its stored end_y strictly greater than
\* its stored start_y, the boxes being well-formed.
C17_PositiveHeight ==
  (pc = "regions" /\ \A i \in 1..Len(boxes) : WellFormed(boxes[i])) =>
    \A k \in 1..Len(res) : res[k].end_y > res[k].start_y

\* C18: the boxes of a region are those with start_y <= y1 < end_y, and no
\* box of the collection is among the boxes of two regions.
C18_HalfOpenSlices ==
  pc = "regions" =>
    /\ \A k \in 1..Len(res) :
         Range(res[k].region_boundboxes) =
           {b \in Range(boxes) : res[k].start_y <= b.y1 /\ b.y1 < res[k].end_y}
    /\ \A k, l \in 1..Len(res) :
         k # l => Range(res[k].region_boundboxes) \cap Range(res[l].region_boundboxes) = {}

\* No box is among the boxes of two regions (the second half of C18 alone).
C18_NoSharedBox ==
  pc = "regions" =>
    \A k, l \in 1..Len(res) :
      k # l => Range(res[k].region_boundboxes) \cap Range(res[l].region_boundboxes) = {}

(***************************************************************************)
(* remove_duplicates and its early exit                                    *)
(***************************************************************************)
\* The scan of lines 68-96 without lines 75-76: every later box is compared.
RECURSIVE FullInnerScan(_, _, _, _)
FullInnerScan(sb, i, j, keep) ==
  IF j > Len(sb) THEN keep
  ELSE IF j \notin keep THEN FullInnerScan(sb, i, j + 1, keep)
  ELSE LET box1 == sb[i]
           box2 == sb[j]
           intersection == Intersection(box1, box2)
       IN  IF NoYOverlap(box1, box2) THEN FullInnerScan(sb, i, j + 1, keep)
           ELSE IF FirstIsSmaller(box1, box2)
                THEN IF Covered(intersection, area(box1))
                     THEN keep \ {i}
                     ELSE FullInnerScan(sb, i, j + 1, keep)
                ELSE IF Covered(intersection, area(box2))
                     THEN FullInnerScan(sb, i, j + 1, keep \ {j})
                     ELSE FullInnerScan(sb, i, j + 1, keep)

RECURSIVE FullOuterScan(_, _, _)
FullOuterScan(sb, i, keep) ==
  IF i > Len(sb) THEN keep
  ELSE IF i \notin keep THEN FullOuterScan(sb, i + 1, keep)
  ELSE FullOuterScan(sb, i + 1, FullInnerScan(sb, i, i + 1, keep))

FullScanKept(bs) ==
  LET sorted_boxes == SortByY1(bs)
  IN  PickKept(sorted_boxes, FullOuterScan(sorted_boxes, 1, 1..Len(sorted_boxes)), 1)

\* C19: remove_duplicates returns what the same scan without the early exit
\* returns, for every collection of well-formed boxes.
C19_EarlyExitSameResult ==
  (pc = "dedup" /\ \A i \in 1..Len(boxes) : WellFormed(boxes[i])) =>
    res.kept = FullScanKept(boxes)

\* C19 witness: three boxes of which one was removed, the early exit having
\* cut the scan of the first box before the last one.
C19_Witness ==
  /\ pc = "dedup"
  /\ Len(boxes) = 3
  /\ Len(res.kept) = 2
  /\ LET sorted_boxes == SortByY1(boxes)
     IN  /\ ~EarlyExit(sorted_boxes[1], sorted_boxes[2])
         /\ EarlyExit(sorted_boxes[1], sorted_boxes[3])
         /\ Duplicates(sorted_boxes[2], sorted_boxes[3])

(***************************************************************************)
(* find_y_offset_boundboxes: which pair gives the offset                   *)
(***************************************************************************)
MaxMatchBoxes == 2

\* Texts equal, nearly equal (two of them equally near TextA) and unrelated,
\* at x1 within and beyond 10px of each other.
MatchBoxes ==
  { At(TextA, 0, 0, 2), At(TextA, 11, 3, 2), At(TextA2, 10, 4, 2),
    At(TextA3, 5, 7, 3), At(TextA2, 0, 1, 2), At(TextB, 0, 4, 2) }

InitMatch ==
  /\ images \in [1..2 -> SeqsUpTo(MatchBoxes, MaxMatchBoxes)]
  /\ boxes = <<>>
  /\ given = "images"
  /\ pc = "input"
  /\ res = None

SpecMatch == InitMatch /\ [][NextPair]_vars

\* Positions of the boxes of unique text.
UniqueIdx(bs) == {i \in 1..Len(bs) : UniqueIn(bs[i].text, bs)}

\* Similarity of current box c and previous box p, and whether p qualifies
\* for c: similarity >= 0.9 and x1 within 10px.
Similarity(c, p) == text_similarity(images[2][c].text, images[1][p].text)

Qualifying(c) ==
  {p \in UniqueIdx(images[1]) :
     /\ 10 * Similarity(c, p)[1] >= 9 * Similarity(c, p)[2]
     /\ Abs(images[2][c].x1 - images[1][p].x1) <= 10}

Matched == {c \in UniqueIdx(images[2]) : Qualifying(c) # {}}

\* p's similarity is the highest among the qualifying boxes and no earlier
\* one reaches it.
IsBest(c, p) ==
  /\ p \in Qualifying(c)
  /\ \A q \in Qualifying(c) :
       /\ ~RatioLess(Similarity(c, p), Similarity(c, q))
       /\ q < p => RatioLess(Similarity(c, q), Similarity(c, p))

\* C20: None is returned exactly when no current box of unique text has a
\* qualifying previous box of unique text; otherwise the offset is
\* prev.yMid - curr.yMid for the first such current box and its qualifying
\* previous box of highest similarity, the earliest on a tie.
C20_FirstCurrBestPrev ==
  pc = "yoffset" =>
    IF Matched = {} THEN res = None
    ELSE LET c == SetMin(Matched)
             p == CHOOSE q \in Qualifying(c) : IsBest(c, q)
             prev == images[1][p]
             curr == images[2][c]
         IN  /\ \E q \in Qualifying(c) : IsBest(c, q)
             /\ res = Some((prev.y1 + prev.y2) - (curr.y1 + curr.y2))

\* C20 witness: the first current box has two equally similar previous boxes
\* and the second current box an identical one; the first pair decides.
C20_Witness ==
  /\ pc = "yoffset"
  /\ images[2] = <<At(TextA, 0, 0, 2), At(TextA2, 10, 4, 2)>>
  /\ images[1] = <<At(TextA3, 5, 7, 3), At(TextA2, 10, 4, 2)>>
  /\ res = Some(17 - 2)

(***************************************************************************)
(* find_y_offset_boundboxes: texts that occur more than once               *)
(***************************************************************************)
MaxRepeatBoxes == 3

\* One text at three places and another text, all at the same x1.
RepeatBoxes ==
  { At(TextA, 0, 0, 2), At(TextA, 0, 4, 2), At(TextA, 0, 8, 2),
    At(TextB, 0, 4, 2) }

InitRepeat ==
  /\ images \in [1..2 -> SeqsUpTo(RepeatBoxes, MaxRepeatBoxes)]
  /\ boxes = <<>>
  /\ given = "images"
  /\ pc = "input"
  /\ res = None

\* offset = find_y_offset_boundboxes(prev_boxes, curr_boxes), with the pair
\* of boxes it was computed from
CallFindYOffsetAnchor ==
  /\ pc = "input"
  /\ pc' = "anchor"
  /\ LET prev_unique == UniqueBoxes(images[1])
         curr_unique == UniqueBoxes(images[2])
         match == IF images[1] = <<>> \/ images[2] = <<>> THEN <<0, 0>>
                  ELSE MatchScan(prev_unique, curr_unique, 1)
     IN  res' = [offset |-> find_y_offset_boundboxes(images[1], images[2]),
                 anchors |-> IF match = <<0, 0>> THEN <<>>
                             ELSE <<prev_unique[match[1]], curr_unique[match[2]]>>]
  /\ UNCHANGED <<boxes, images, given>>

NextRepeat == CallFindYOffsetAnchor

SpecRepeat == InitRepeat /\ [][NextRepeat]_vars

\* Number of boxes of an image that carry the text.
Occurrences(text, bs) == Cardinality({i \in 1..Len(bs) : bs[i].text = text})

AllRepeated(bs) == \A i \in 1..Len(bs) : Occurrences(bs[i].text, bs) > 1

\* C21: the box used as anchor on either side carries a text that occurs
\* exactly once in its own image, however often the other texts occur; when
\* every text of the previous image, or every text of the current image,
\* occurs more than once the result is None.
C21_RepeatedNeverAnchor ==
  pc = "anchor" =>
    /\ res.anchors # <<>> =>
          /\ Occurrences(res.anchors[1].text, images[1]) = 1
          /\ Occurrences(res.anchors[2].text, images[2]) = 1
    /\ AllRepeated(images[1]) \/ AllRepeated(images[2]) =>
          res.offset = None /\ res.anchors = <<>>

\* C21 witness: a text that stands three times in the previous image is no
\* anchor for its single occurrence in the current image, and the result is
\* None.
C21_Witness ==
  /\ pc = "anchor"
  /\ images[1] = <<At(TextA, 0, 0, 2), At(TextA, 0, 4, 2), At(TextA, 0, 8, 2)>>
  /\ images[2] = <<At(TextA, 0, 4, 2), At(TextB, 0, 4, 2)>>
  /\ res.offset = None
  /\ res.anchors = <<>>

C22_WitnessSameY1 ==
  /\ pc = "dedup"
  /\ boxes = <<TieSecond, TieFirst>>
  /\ res.kept = <<TieSecond>>

\* Positions of the y1-sorted list that remove_duplicates dropped.
RemovedIndices(bs) == (1..Len(bs)) \ KeepIndices(bs)

\* Box b has at least the area of box a and covers more than min_ratio of it.
CoversMore(b, a) ==
  /\ area(b) >= area(a)
  /\ Intersection(a, b) * MinRatioDen > MinRatioNum * area(a)

C24_ChainState ==
  /\ pc = "dedup"
  /\ boxes = <<ChainA, ChainB, ChainC>>
  /\ res.kept = <<ChainC>>
  /\ Intersection(ChainA, ChainC) = 0

\* The sequence bs taken in the order q.
Reordered(bs, q) == [k \in 1..Len(bs) |-> bs[q[k]]]

DistinctAreas(bs) ==
  \A i, j \in 1..Len(bs) : i # j => area(bs[i]) # area(bs[j])

\* C25: for well-formed boxes of pairwise distinct areas, the set of boxes
\* kept is the same for every order of the input.
C25_OrderIndependent ==
  (/\ pc = "dedup"
   /\ \A i \in 1..Len(boxes) : WellFormed(boxes[i])
   /\ DistinctAreas(boxes)) =>
    \A q \in Orderings(Len(boxes)) :
      Range(remove_duplicates(Reordered(boxes, q))) = Range(res.kept)

\* The state in which C25 fails: the chain given last box first keeps two
\* boxes, given first box first it keeps one.
C25_OrderState ==
  /\ pc = "dedup"
  /\ boxes = <<ChainC, ChainA, ChainB>>
  /\ Range(res.kept) = {ChainA, ChainC}
  /\ remove_duplicates(<<ChainA, ChainB, ChainC>>) = <<ChainC>>

(***************************************************************************)
(* main: the comments collected from the regions  (ocr.py 270-284)         *)
(***************************************************************************)
\* lines 280-284: the "parsed" entries of the regions that have one
CollectCommentsMut(comment_regions) ==
  [k \in 1..Len(comment_regions) |-> comment_regions[k].parsed]

CollectComments(comment_regions) ==
  LET parsed_in(region) == region.has_parsed
      with_parsed == SelectSeq(comment_regions, parsed_in)
  IN  [k \in 1..Len(with_parsed) |-> with_parsed[k].parsed]

\* comments = [region["parsed"] for the regions that have it]
CallCollectComments ==
  /\ pc = "regions"
  /\ pc' = "comments"
  /\ res' = [comment_regions |-> res, comments |-> CollectComments(res)]
  /\ UNCHANGED <<boxes, images, given>>

NextComments == CallShadeCommentRegions \/ CallCollectComments

SpecComments == InitRegions /\ [][NextComments]_vars

\* The boxes of the collection that lie in the region as returned: y1 from
\* its start_y to its end_y.
SliceOf(region) ==
  LET inside(b) == region.start_y <= b.y1 /\ b.y1 <= region.end_y
  IN  SelectSeq(boxes, inside)

\* The positions of the regions whose slice holds a box, ascending.
FilledRegions(regions) ==
  LET filled(k) == SliceOf(regions[k]) # <<>>
  IN  SelectSeq([k \in 1..Len(regions) |-> k], filled)

\* C23: the comments are the parsed comments of the regions whose slice
\* holds at least one box, one each and in the order of the regions, which
\* is ascending in end_y; a region with an empty slice has no entry.
C23_CommentsOfFilledRegions ==
  pc = "comments" =>
    LET regions == res.comment_regions
        filled == FilledRegions(regions)
    IN  /\ Len(res.comments) = Len(filled)
        /\ \A n \in 1..Len(filled) :
             res.comments[n] = parse_comment(SliceOf(regions[filled[n]]))
        /\ \A k \in 1..(Len(regions) - 1) : regions[k].end_y < regions[k + 1].end_y

\* C23 witness: two regions are returned, the first without a box, and the
\* only comment is the one of the second region.
C23_Witness ==
  /\ pc = "comments"
  /\ Len(res.comment_regions) = 2
  /\ SliceOf(res.comment_regions[1]) = <<>>
  /\ SliceOf(res.comment_regions[2]) # <<>>
  /\ Len(res.comments) = 1
  /\ res.comments[1].username # <<>>

(***************************************************************************)
(* Alignment: where the anchor pair lands in the unified collection        *)
(***************************************************************************)
\* The positions <<p, c>>, in image i-1 and in image i, of the pair of boxes
\* find_y_offset_boundboxes took the offset from; <<0, 0>> without a pair.
AnchorPair(i) ==
  LET prev_unique == UniqueBoxes(images[i - 1])
      curr_unique == UniqueBoxes(images[i])
      match == IF images[i - 1] = <<>> \/ images[i] = <<>> THEN <<0, 0>>
               ELSE MatchScan(prev_unique, curr_unique, 1)
  IN  IF match = <<0, 0>> THEN <<0, 0>>
      ELSE <<CHOOSE p \in 1..Len(images[i - 1]) :
               images[i - 1][p] = prev_unique[match[1]],
             CHOOSE c \in 1..Len(images[i]) :
               images[i][c] = curr_unique[match[2]]>>

\* The boxes of image i as they stand in the unified collection.
UnifiedImage(i) == SubSeq(res, BoxesBefore(i) + 1, BoxesBefore(i) + Len(images[i]))

\* C26: for every image after the first that has an anchor pair with its
\* predecessor, the two anchor boxes have the same vertical midpoint in the
\* unified collection; and anchoring the raw image against the unified
\* boxes of its predecessor finds a pair exactly when the raw pair of images
\* has one, the offset found being the cumulative offset of the image.
C26_AnchorsCoincide ==
  pc = "combined" =>
    LET offsets == find_alignment_offsets_boundboxes(images)
    IN  \A i \in 2..Len(images) :
          LET pair == AnchorPair(i)
              anchored == find_y_offset_boundboxes(UnifiedImage(i - 1),
                                                   HalfPixels(images[i]))
          IN  /\ anchored.none <=> pair = <<0, 0>>
              /\ pair # <<0, 0>> =>
                    LET p == UnifiedImage(i - 1)[pair[1]]
                        c == UnifiedImage(i)[pair[2]]
                    IN  /\ p.y1 + p.y2 = c.y1 + c.y2
                        /\ anchored.offset2 = 2 * offsets[i]

\* C26 witness: the second and the third image both have an anchor pair with
\* their predecessor, and the third is placed by the sum of the two offsets.
C26_Witness ==
  /\ pc = "combined"
  /\ Len(images) = 3
  /\ AnchorPair(2) # <<0, 0>>
  /\ AnchorPair(3) # <<0, 0>>
  /\ LET offsets == find_alignment_offsets_boundboxes(images)
     IN  /\ offsets[2] # 0
         /\ offsets[3] # offsets[2]
         /\ UnifiedImage(3)[AnchorPair(3)[2]].y1
              = 2 * images[3][AnchorPair(3)[2]].y1 + offsets[3]

(***************************************************************************)
(* Comment regions: the median filter and the order of the regions         *)
(***************************************************************************)
\* The reply buttons of the collection, and those the median filter keeps.
Markers == SelectSeq(boxes, IsReplyButton)

\* A 'meest relevant' box stands in the collection and ends above the end
\* of every reply button.
MeestRelevantAbove ==
  /\ FindMeestRelevant(boxes) # 0
  /\ \A k \in 1..Len(Markers) : Markers[k].y2 > boxes[FindMeestRelevant(boxes)].y2

\* C27: when the collection holds a reply button, at least one reply button
\* passes the median filter, and with a 'meest relevant' box above the
\* buttons at least one region is returned.
C27_MarkerSurvives ==
  (pc = "regions" /\ Markers # <<>>) =>
    /\ FilterButtons(Markers) # <<>>
    /\ MeestRelevantAbove => res # <<>>

\* The state in which C27 fails: two reply buttons in one column, 20px and
\* 80px high, under 'meest relevant'; the median height is 50, neither
\* button is within 5px of it, and no region is returned.
C27_BothFilteredState ==
  /\ pc = "regions"
  /\ boxes = << Boundbox(300, 420, 80, 100, TMeestRelevant, 1),
                Boundbox(300, 400, 130, 150, TBeantwoorden, 1),
                Boundbox(300, 400, 140, 220, TBeantwoorden, 1) >>
  /\ MeestRelevantAbove
  /\ FilterButtons(Markers) = <<>>
  /\ res = <<>>

\* C28: along the list of regions returned end_y increases strictly and
\* each region starts at or after the end of the region before it; the
\* first region starts at or after the y2 of the 'meest relevant' box.
C28_RegionsOrdered ==
  pc = "regions" =>
    /\ \A k \in 1..(Len(res) - 1) :
         /\ res[k].end_y < res[k + 1].end_y
         /\ res[k + 1].start_y >= res[k].end_y
    /\ res # <<>> => res[1].start_y >= boxes[FindMeestRelevant(boxes)].y2

\* C28 witness: two regions, the second one starting below the end of the
\* first, at the y2 of a reply count.
C28_Witness ==
  /\ pc = "regions"
  /\ Len(res) = 2
  /\ res[1].end_y = 150
  /\ res[2].start_y = 170
  /\ res[2].end_y = 220

(***************************************************************************)
(* parse_post: the rows above the boundary                                 *)
(***************************************************************************)
NoRows == [first_line |-> <<>>, remaining_boxes |-> <<>>,
           second_line |-> <<>>, text_boxes |-> <<>>]

\* post_data = parse_post(boundboxes), with the rows it went through
CallParsePostRows ==
  /\ pc = "input"
  /\ pc' = "postrows"
  /\ LET comments_box == find_pattern(boxes)
         post_boundboxes ==
           IF comments_box = 0 THEN <<>>
           ELSE find_boxes_above(boxes, boxes[comments_box].y1, PostMargin)
     IN  res' = [post |-> parse_post(boxes),
                 rows |-> IF post_boundboxes = <<>> THEN NoRows
                          ELSE PostRows(post_boundboxes)]
  /\ UNCHANGED <<boxes, images, given>>

NextPostRows == CallParsePostRows

SpecPostRows == InitPost /\ [][NextPostRows]_vars

\* How often the box stands in the list.
CountIn(box, bs) == Cardinality({i \in 1..Len(bs) : bs[i] = box})

MaxTextBoxes == 3

\* Words on three rows, the second within and the third beyond 10px of the
\* first, one text twice.
TextBoxes ==
  { Word(THello, 0, 0), Word(TWorld, 60, 2), Word(THello, 0, 11),
    Word(TLeuk, 30, 22) }

\* The loop is left alone once it has run longer than any collection here
\* has boxes.
MaxIterations == MaxTextBoxes + 1

NoLoop == [remaining_boxes |-> <<>>, text_lines |-> <<>>, iterations |-> 0,
           out |-> <<>>]

\* lines 143-147: the empty collection returns "", otherwise the loop is
\* entered with a copy of the boxes
EnterCreateReadableText ==
  /\ pc = "input"
  /\ IF boxes = <<>>
     THEN pc' = "text" /\ res' = NoLoop
     ELSE pc' = "loop" /\ res' = [NoLoop EXCEPT !.remaining_boxes = boxes]
  /\ UNCHANGED <<boxes, images, given>>

\* lines 149-165: one pass of while remaining_boxes
RowIteration ==
  /\ pc = "loop"
  /\ res.remaining_boxes # <<>>
  /\ res.iterations < MaxIterations
  /\ LET min_y1 == SetMin(Y1s(res.remaining_boxes))
         inRow(box) == box.y1 <= min_y1 + RowTolerance
         current_row == SortedBy(SelectSeq(res.remaining_boxes, inRow), "x1")
         row_text == JoinSpace(Texts(current_row))
     IN  res' = [res EXCEPT !.remaining_boxes = RemoveAll(@, current_row),
                            !.text_lines = Append(@, row_text),
                            !.iterations = @ + 1]
  /\ UNCHANGED <<pc, boxes, images, given>>

\* line 167: return " ".join(text_lines)
ReturnReadableText ==
  /\ pc = "loop"
  /\ res.remaining_boxes = <<>>
  /\ pc' = "text"
  /\ res' = [res EXCEPT !.out = JoinSpace(res.text_lines)]
  /\ UNCHANGED <<boxes, images, given>>

NextText == EnterCreateReadableText \/ RowIteration \/ ReturnReadableText

InitText ==
  /\ boxes \in SeqsUpTo(TextBoxes, MaxTextBoxes)
  /\ images = <<>>
  /\ given = "boxes"
  /\ pc = "input"
  /\ res = NoLoop

\* The loop runs whenever it can.
SpecText == InitText /\ [][NextText]_vars /\ WF_vars(NextText)

\* The words of a text: its pieces between single spaces.
RECURSIVE SplitSpace(_, _)
SplitSpace(text, word) ==
  IF text = <<>> THEN <<word>>
  ELSE IF Head(text) = " " THEN <<word>> \o SplitSpace(Tail(text), <<>>)
  ELSE SplitSpace(Tail(text), Append(word, Head(text)))

\* The text of every box stands in the output exactly once: the words of
\* the output are the texts of the boxes, each as often as boxes carry it.
EachTextOnce(out, bs) ==
  LET words == IF bs = <<>> THEN <<>> ELSE SplitSpace(out, <<>>)
  IN  /\ Len(words) = Len(bs)
      /\ \A i \in 1..Len(bs) :
           Cardinality({w \in 1..Len(words) : words[w] = bs[i].text})
             = Cardinality({j \in 1..Len(bs) : bs[j].text = bs[i].text})

\* In every state of the loop the iterations made and the boxes left are
\* together at most the boxes given, and the value returned holds every
\* text once and is the value of create_readable_text.
LoopBound ==
  /\ res.iterations + Len(res.remaining_boxes) <= Len(boxes)
  /\ pc = "text" => /\ res.iterations <= Len(boxes)
                    /\ EachTextOnce(res.out, boxes)
                    /\ res.out = create_readable_text(boxes)

\* C30: create_readable_text returns for every collection, after at most as
\* many row iterations as there are boxes, every iteration removing at
\* least one box, and the text returned holds the text of every box
\* exactly once.
C30_TerminatesWithEveryText ==
  /\ []LoopBound
  /\ [][res'.iterations = res.iterations + 1 =>
          Len(res'.remaining_boxes) < Len(res.remaining_boxes)]_vars
  /\ <>(pc = "text")

\* C30 witness: three boxes on three rows took three iterations.
C30_Witness ==
  /\ pc = "text"
  /\ Len(boxes) = 3
  /\ res.iterations = 3
  /\ Len(res.text_lines) = 3

\* C30 witness: three boxes on one row took one iteration.
C30_WitnessOneRow ==
  /\ pc = "text"
  /\ Len(boxes) = 3
  /\ res.iterations = 1

====
